---- MODULE Spec2Model ----
(***************************************************************************)
(* Model of the text-annotation and editing core of the quora-clone web    *)
(* client: the segment tokenizer (src/src/utils/textUtils.ts) and the      *)
(* MarkdownEditor component with its undo/redo history and its mention     *)
(* dropdown (src/src/components/MentionDropdown.tsx).                      *)
(*                                                                         *)
(* A JavaScript string is a sequence of one-character strings.  Positions  *)
(* are 0-based as in the source; CharAt converts to TLA+'s 1-based         *)
(* sequences.  history is a sequence, historyIndex is the 0-based index    *)
(* the source keeps, so the current snapshot is history[historyIndex + 1]. *)
(***************************************************************************)
EXTENDS Integers, Sequences, FiniteSets, TLC

VARIABLES
    \* ---- tokenizer run (parseTextWithTagsAndMentions) ----
    text,             \* the argument `text`
    availableUsers,   \* the user list (argument of the tokenizer, prop of the editor)
    segments,         \* the returned ParsedSegment[]
    parsed,           \* TRUE once the tokenizer has returned
    rendered,         \* MarkdownRenderer: the node a component rendered and what it shows
    imageModal,       \* per MarkdownRenderer: useState imageModal, and ImageModal's isFullscreen
    bodyOverflow,     \* document.body.style.overflow
    voteDoc,          \* a question or answer document: its votes and userVotes fields
    voteCalls,        \* the handleVote calls between their getDoc and their updateDoc
    \* ---- MarkdownEditor ----
    value,            \* the controlled buffer (prop `value`, owned by the host page)
    selectionStart,   \* textarea.selectionStart
    selectionEnd,     \* textarea.selectionEnd
    history,          \* useState<string[]>([value || ""])
    historyIndex,     \* useState(0)
    historyTimer,     \* ms elapsed on the pending history timeout, or NoTimer
    mentionDropdown,  \* {isVisible, searchTerm, startIndex}
    quiet,            \* observer: ms since the buffer last changed (capped)
    last,             \* observer: the handler that ran last and what it passed to onChange
    focused,          \* the textarea is document.activeElement
    blurTimers,       \* ms elapsed on each pending blur timeout (handleTextareaBlur)
    mounted,          \* the editor has not been unmounted
    pressed,          \* the key or mouse button held down, whose release is still to come
    selectedIndex,    \* MentionDropdown: useState(0), the highlighted candidate
    \* ---- MentionDropdown placement ----
    layout            \* viewport, anchor position and the position getAdjustedPosition gave

vars == <<text, availableUsers, segments, parsed, rendered, imageModal,
          bodyOverflow, voteDoc, voteCalls, value, selectionStart,
          selectionEnd, history, historyIndex, historyTimer, mentionDropdown,
          quiet, last, focused, blurTimers, mounted, pressed, selectedIndex,
          layout>>

pageVars == <<imageModal, bodyOverflow, voteDoc, voteCalls>>
parseVars == <<text, availableUsers, segments, parsed, rendered, pageVars>>
editorVars == <<value, selectionStart, selectionEnd, history, historyIndex,
                historyTimer, mentionDropdown, quiet, last, selectedIndex>>
uiVars == <<focused, blurTimers, mounted, pressed>>

(***************************************************************************)
(* Bounds of the model.                                                    *)
(***************************************************************************)
MaxTextLen == 5       \* longest tokenizer input
MaxLen == 2           \* Spec: the user types only while the buffer is shorter than this
MaxMentionLen == 3    \* SpecMention: the same, and a candidate is chosen only then
MaxSnapshots == 3     \* Spec: a checkpoint is taken only up to this many snapshots
MaxBlurTimers == 2    \* SpecFocus: the textarea is blurred only while fewer timeouts are pending
MaxBodyLen == 1       \* SpecToolbar: longest text of a heading line in the initial document
MaxUndoDepth == 2     \* SpecCap: undo is pressed at most this far below the top
MaxPendingVotes == 2  \* SpecVote: a vote is cast only while fewer calls are under way
MaxTally == 2         \* SpecVote: a vote is cast only while |votes| is at most this
ExtraPushes == 3      \* SpecCap: pushes explored beyond the history limit

(***************************************************************************)
(* Program constants.                                                      *)
(***************************************************************************)
HistoryLimit == 100   \* "Limit history to 100 entries"
HistoryDelay == 500   \* "500ms debounce"
BlurDelay == 150      \* setTimeout(..., 150) in handleTextareaBlur
MaxHeadingLevel == 6  \* "add one more (up to 6 levels)"

NoTimer == -1
dropdownWidth == 300
dropdownHeight == 200
padding == 10
AboveCursorGap == 30
AnchorRightGap == 320
NoCall == <<"no onChange call">>

(***************************************************************************)
(* JavaScript string primitives.                                           *)
(***************************************************************************)
Min(a, b) == IF a < b THEN a ELSE b
Max(a, b) == IF a > b THEN a ELSE b

CharAt(s, i) == s[i + 1]

\* String.prototype.substring: both ends clamped to [0, length], swapped if reversed.
Substring(s, a, b) ==
    LET ca == Max(0, Min(a, Len(s)))
        cb == Max(0, Min(b, Len(s)))
    IN  SubSeq(s, Min(ca, cb) + 1, Max(ca, cb))

\* String.prototype.substring / slice with one argument (never negative here).
SubstringFrom(s, a) == Substring(s, a, Len(s))

\* String.prototype.slice with 0 <= a: empty when a >= b.
Slice(s, a, b) == SubSeq(s, Min(a, Len(s)) + 1, Min(b, Len(s)))

\* String.prototype.indexOf for a single character: -1 when absent.
IndexOf(s, c) ==
    IF \E i \in 0..(Len(s) - 1) : CharAt(s, i) = c
    THEN CHOOSE i \in 0..(Len(s) - 1) :
            /\ CharAt(s, i) = c
            /\ \A j \in 0..(i - 1) : CharAt(s, j) # c
    ELSE -1

\* String.prototype.lastIndexOf for a single character: -1 when absent.
LastIndexOf(s, c) ==
    IF \E i \in 0..(Len(s) - 1) : CharAt(s, i) = c
    THEN CHOOSE i \in 0..(Len(s) - 1) :
            /\ CharAt(s, i) = c
            /\ \A j \in (i + 1)..(Len(s) - 1) : CharAt(s, j) # c
    ELSE -1

\* String.prototype.includes.
Includes(s, t) ==
    \E i \in 0..(Len(s) - Len(t)) : SubSeq(s, i + 1, i + Len(t)) = t

UpperCase == <<"A", "B", "C", "D", "E", "F", "G", "H", "I", "J", "K", "L", "M",
               "N", "O", "P", "Q", "R", "S", "T", "U", "V", "W", "X", "Y", "Z">>
LowerCase == <<"a", "b", "c", "d", "e", "f", "g", "h", "i", "j", "k", "l", "m",
               "n", "o", "p", "q", "r", "s", "t", "u", "v", "w", "x", "y", "z">>
Digits == {"0", "1", "2", "3", "4", "5", "6", "7", "8", "9"}

LowerChar(c) ==
    IF \E k \in 1..Len(UpperCase) : UpperCase[k] = c
    THEN LowerCase[CHOOSE k \in 1..Len(UpperCase) : UpperCase[k] = c]
    ELSE c

\* String.prototype.toLowerCase.
ToLowerCase(s) == [i \in 1..Len(s) |-> LowerChar(s[i])]

\* The regular-expression classes \w and \s (the ASCII part of \s).
IsWordChar(c) ==
    \/ \E k \in 1..Len(UpperCase) : UpperCase[k] = c \/ LowerCase[k] = c
    \/ c \in Digits
    \/ c = "_"

IsWhitespace(c) == c \in {" ", "\t", "\n", "\r", "\f"}

\* All strings over alphabet A of length at most n.
StringsUpTo(A, n) == UNION {[1..k -> A] : k \in 0..n}

(***************************************************************************)
(* The segment tokenizer: parseTextWithTagsAndMentions.                    *)
(*   regex = /(?:^|\s)(#\w+)|(?:^|\s)(@\w+)/g                              *)
(***************************************************************************)
Undefined == <<"undefined">>
NoMatch == [index |-> -1, full |-> <<>>, hashtag |-> Undefined, mention |-> Undefined]

\* The end of the greedy \w+ starting at position i (i itself when no word char is there).
RECURSIVE WordRunEnd(_, _)
WordRunEnd(s, i) ==
    IF i < Len(s) /\ IsWordChar(CharAt(s, i)) THEN WordRunEnd(s, i + 1) ELSE i

\* A mutation of Boundary: the regex of an earlier revision, /(#\w+|@\w+)/g, which
\* asks for no boundary before the marker.
BoundaryNone(s, p) == <<0>>

\* (?:^|\s) tried at position p: the widths it can consume, in the order the regex
\* engine tries them.  ^ has no m flag: it matches at position 0 only.
Boundary(s, p) ==
    (IF p = 0 THEN <<0>> ELSE <<>>)
        \o (IF p < Len(s) /\ IsWhitespace(CharAt(s, p)) THEN <<1>> ELSE <<>>)

\* marker followed by \w+ at position i.
MarkerWordAt(s, i, marker) ==
    /\ i + 1 < Len(s)
    /\ CharAt(s, i) = marker
    /\ IsWordChar(CharAt(s, i + 1))

\* One alternative, (?:^|\s)(marker\w+), tried at position p: the widths of the
\* boundary with which it matches, in order.
AltWidths(s, p, marker) ==
    SelectSeq(Boundary(s, p), LAMBDA w : MarkerWordAt(s, p + w, marker))

\* The match of the whole regex at position p, or NoMatch: the first alternative
\* (hashtag) is preferred over the second (mention).
MatchAt(s, p) ==
    LET hw == AltWidths(s, p, "#")
        mw == AltWidths(s, p, "@")
    IN  IF hw # <<>>
        THEN [index |-> p,
              full |-> Slice(s, p, WordRunEnd(s, p + hw[1] + 1)),
              hashtag |-> Slice(s, p + hw[1], WordRunEnd(s, p + hw[1] + 1)),
              mention |-> Undefined]
        ELSE IF mw # <<>>
        THEN [index |-> p,
              full |-> Slice(s, p, WordRunEnd(s, p + mw[1] + 1)),
              hashtag |-> Undefined,
              mention |-> Slice(s, p + mw[1], WordRunEnd(s, p + mw[1] + 1))]
        ELSE NoMatch

\* regex.exec(text) with regex.lastIndex = from: the leftmost match at or after from.
RegexExec(s, from) ==
    IF \E p \in from..Len(s) : MatchAt(s, p).index # -1
    THEN MatchAt(s, CHOOSE p \in from..Len(s) :
                        /\ MatchAt(s, p).index # -1
                        /\ \A q \in from..(p - 1) : MatchAt(s, q).index = -1)
    ELSE NoMatch

\* A mutation of ActualStart: the start of the whole match, boundary included.
ActualStartOfMatch(match) == match.index

\* actualStart = hashtag ? matchStart + fullMatch.indexOf('#')
\*                       : matchStart + fullMatch.indexOf('@')
ActualStart(match) ==
    IF match.hashtag # Undefined
    THEN match.index + IndexOf(match.full, "#")
    ELSE match.index + IndexOf(match.full, "@")

\* A mutation of UserExists: the comparison without toLowerCase.
UserExistsExact(users, username) ==
    \E k \in 1..Len(users) :
        users[k].username # <<>> /\ users[k].username = username

\* A mutation of UserExists: every username is taken to exist.
UserExistsAlways(users, username) == TRUE

\* availableUsers.some(user => user.username &&
\*     user.username.toLowerCase() === username.toLowerCase())
UserExists(users, username) ==
    \E k \in 1..Len(users) :
        /\ users[k].username # <<>>
        /\ ToLowerCase(users[k].username) = ToLowerCase(username)

TextSegment(content) == [type |-> "text", content |-> content]

\* A mutation of WithRemainingText: an off-by-one in the length test.
WithRemainingTextShort(segs, s, lastIndex) ==
    IF lastIndex < Len(s) - 1
    THEN Append(segs, TextSegment(Slice(s, lastIndex, Len(s))))
    ELSE segs

\* "Add remaining text": if (lastIndex < text.length) push text.slice(lastIndex).
WithRemainingText(segs, s, lastIndex) ==
    IF lastIndex < Len(s)
    THEN Append(segs, TextSegment(Slice(s, lastIndex, Len(s))))
    ELSE segs

\* The while loop over regex.exec: regexLastIndex is regex.lastIndex, lastIndex the
\* local variable.
RECURSIVE ParseLoop(_, _, _, _, _)
ParseLoop(s, users, regexLastIndex, lastIndex, segs) ==
    LET match == RegexExec(s, regexLastIndex)
    IN  IF match.index = -1
        THEN WithRemainingText(segs, s, lastIndex)
        ELSE
          LET actualStart == ActualStart(match)
              before == IF actualStart > lastIndex
                        THEN Append(segs, TextSegment(Slice(s, lastIndex, actualStart)))
                        ELSE segs
              nextRegexIndex == match.index + Len(match.full)
          IN  IF match.hashtag # Undefined
              THEN ParseLoop(s, users, nextRegexIndex,
                             actualStart + Len(match.hashtag),
                             Append(before, [type |-> "hashtag",
                                             content |-> Slice(match.hashtag, 1, Len(match.hashtag)),
                                             isValid |-> TRUE]))
              ELSE ParseLoop(s, users, nextRegexIndex,
                             actualStart + Len(match.mention),
                             Append(before, [type |-> "mention",
                                             content |-> Slice(match.mention, 1, Len(match.mention)),
                                             isValid |-> UserExists(users,
                                                 Slice(match.mention, 1, Len(match.mention)))]))

\* A mutation of parseTextWithTagsAndMentions: the empty input gives one text
\* segment with empty content.
parseTextEmptySegment(s, users) ==
    IF s = <<>> THEN <<TextSegment(<<>>)>> ELSE ParseLoop(s, users, 0, 0, <<>>)

\* if (!text) return []; otherwise the loop from lastIndex 0.
parseTextWithTagsAndMentions(s, users) ==
    IF s = <<>> THEN <<>> ELSE ParseLoop(s, users, 0, 0, <<>>)

(***************************************************************************)
(* The inputs the model draws from.                                        *)
(***************************************************************************)
TextAlphabet == {"a", "A", "#", "@", " ", "\n"}

alice == [uid |-> "u1", username |-> <<"a">>]
bob == [uid |-> "u2", username |-> <<"A", "a">>]
UserLists == {<<>>, <<alice>>, <<bob>>, <<alice, bob>>}

(***************************************************************************)
(* The editor as constructed: useState initialisers of MarkdownEditor, and *)
(* the history effect's first run, which arms the timer.                   *)
(***************************************************************************)
HiddenDropdown == [isVisible |-> FALSE, searchTerm |-> <<>>, startIndex |-> 0]

\* What the observer records of a step: the handler, what it was given (the name
\* of a user, or the markers and placeholder of insertText), how many redo entries
\* a checkpoint discarded (-1: no checkpoint taken), and the argument of the
\* onChange call (NoCall: none).
Ran(op, user, dropped, onChange) ==
    [op |-> op, user |-> user, dropped |-> dropped, onChange |-> onChange]

\* Where the caret of a textarea created with text in it stands is the
\* browser's choice: before the text or after it.
EditorMounted(initial) ==
    /\ value = initial
    /\ selectionStart \in {0, Len(initial)}
    /\ selectionEnd = selectionStart
    /\ history = <<initial>>
    /\ historyIndex = 0
    /\ historyTimer = 0
    /\ mentionDropdown = HiddenDropdown
    /\ quiet = 0
    /\ last = Ran("mount", <<>>, -1, NoCall)
    /\ selectedIndex = 0

\* What is held down: the key or button, whether its press closed the dropdown,
\* and the dropdown candidate under the pointer (for the mouse button).
Press(key, closed, on) == [key |-> key, closed |-> closed, on |-> on]
NoPress == Press("none", FALSE, <<>>)
NoLayout == [rendered |-> FALSE]
NotRendered == [kind |-> "none", children |-> <<>>, shown |-> <<>>]

\* The MarkdownRenderers of a page (the question's body and an answer's), each
\* with its own ImageModal.  useState of MarkdownRenderer: imageModal closed, no
\* image; of ImageModal: isFullscreen false.  The body's overflow is not set.
Renderers == {"question", "answer"}
NoImage == [src |-> <<>>, alt |-> <<>>, title |-> <<>>]
ClosedModal(isFullscreen) ==
    [isOpen |-> FALSE, image |-> NoImage, isFullscreen |-> isFullscreen]
\* The users who vote, and a document's userVotes map: "none" for a user
\* without an entry in it.
Voters == {"u1", "u2"}

\* The number of 'up' entries minus the number of 'down' entries.
Tally(userVotes) ==
    Cardinality({u \in Voters : userVotes[u] = "up"})
        - Cardinality({u \in Voters : userVotes[u] = "down"})

\* A document whose votes field agrees with its userVotes map.
VotedDoc(userVotes) == [votes |-> Tally(userVotes), userVotes |-> userVotes]

PageRenderedWith(doc) ==
    /\ imageModal = [r \in Renderers |-> ClosedModal(FALSE)]
    /\ bodyOverflow = ""
    /\ voteDoc = doc
    /\ voteCalls = <<>>

PageRendered == PageRenderedWith(VotedDoc([u \in Voters |-> "none"]))

\* The rest of the page around the mounted editor: whether the user has clicked
\* into the textarea (the focus event then ran detectMention on a buffer without an
\* open mention, which leaves the dropdown hidden), nothing held down, no blur
\* timeout pending, no dropdown placed.
PageIn(hasFocus, window) ==
    /\ focused = hasFocus
    /\ blurTimers = <<>>
    /\ mounted = TRUE
    /\ pressed = NoPress
    /\ layout = window

Page(hasFocus) == PageIn(hasFocus, NoLayout)

(***************************************************************************)
(* MarkdownEditor: the pieces every handler shares.                        *)
(***************************************************************************)
\* A mutation of HistoryAt: the index taken as counting from 1.
HistoryAtOneBased(h, i) == IF i \in 1..Len(h) THEN h[i] ELSE Undefined

\* history[i] of a JavaScript array: undefined outside the array.
HistoryAt(h, i) == IF i \in 0..(Len(h) - 1) THEN h[i + 1] ELSE Undefined

\* A mutation of Rearmed: the effect's cleanup does not clear the pending timeout,
\* so the timeout armed first keeps running.
RearmedNever(timer, changed) == timer

\* A mutation of Rearmed: the pending timeout is cleared and none is set.
RearmedCleared(timer, changed) == IF changed THEN NoTimer ELSE timer

\* The history effect, useEffect(..., [value, history, historyIndex]): when a
\* dependency changed, the pending timeout is cleared and a new one is set.
Rearmed(timer, changed) == IF changed THEN 0 ELSE timer

\* The effect runs after the render that follows this step; `timer` is the timer
\* as the step itself leaves it.
HistoryEffect(timer) ==
    historyTimer' = Rearmed(timer, <<value', history', historyIndex'>>
                                       # <<value, history, historyIndex>>)

\* MentionDropdown, useEffect(() => setSelectedIndex(0), [searchTerm]): the
\* highlight goes back to the first candidate when the search term changed.
SelectedIndexEffect ==
    selectedIndex' = IF mentionDropdown'.searchTerm # mentionDropdown.searchTerm
                     THEN 0 ELSE selectedIndex

\* The observer's clock: ms since the buffer last changed, capped at the delay.
Observe(elapsed) ==
    quiet' = IF value' # value THEN 0 ELSE Min(quiet + elapsed, HistoryDelay)

\* <textarea value={value}>: when a render gives the controlled textarea a value
\* other than the one it shows, the DOM value is replaced and the caret goes to
\* the end of the new text.
CaretAfterRender(newValue, start, end) ==
    IF newValue # value THEN <<Len(newValue), Len(newValue)>> ELSE <<start, end>>

\* detectMention(text, cursorPosition): the mention dropdown state it sets.
detectMention(prev, txt, cursorPosition) ==
    LET beforeCursor == Substring(txt, 0, cursorPosition)
        lastAtIndex == LastIndexOf(beforeCursor, "@")
        textAfterAt == SubstringFrom(beforeCursor, lastAtIndex + 1)
        charBeforeAt == IF lastAtIndex > 0 THEN CharAt(beforeCursor, lastAtIndex - 1) ELSE " "
        hidden == [prev EXCEPT !.isVisible = FALSE]
    IN  IF lastAtIndex = -1 THEN hidden
        ELSE IF IndexOf(textAfterAt, " ") # -1 \/ IndexOf(textAfterAt, "\n") # -1 THEN hidden
        ELSE IF charBeforeAt # " " /\ charBeforeAt # "\n" /\ lastAtIndex # 0 THEN hidden
        ELSE [isVisible |-> TRUE, searchTerm |-> textAfterAt, startIndex |-> lastAtIndex]

\* MentionDropdown: users.filter(username includes searchTerm, case-insensitively)
\* .slice(0, 5)
filteredUsers(users, searchTerm) ==
    LET matching == SelectSeq(users, LAMBDA u :
                        /\ u.username # <<>>
                        /\ Includes(ToLowerCase(u.username), ToLowerCase(searchTerm)))
    IN  SubSeq(matching, 1, Min(5, Len(matching)))

(***************************************************************************)
(* MarkdownEditor: the handlers.                                           *)
(***************************************************************************)
\* handleTextareaChange for an input event that left newValue in the textarea with
\* the caret at cursorPosition: onChange(newValue), then (setTimeout 0)
\* detectMention(newValue, cursorPosition).  The 0 ms task runs before the next
\* input event.
handleTextareaChange(newValue, cursorPosition) ==
    /\ value' = newValue
    /\ selectionStart' = cursorPosition
    /\ selectionEnd' = cursorPosition
    /\ mentionDropdown' = detectMention(mentionDropdown, newValue, cursorPosition)
    /\ UNCHANGED <<history, historyIndex>>
    /\ HistoryEffect(historyTimer)
    /\ SelectedIndexEffect
    /\ Observe(0)
    /\ last' = Ran("handleTextareaChange", <<>>, -1, newValue)
    /\ UNCHANGED <<parseVars, uiVars, layout>>

\* An input event puts character c over the selection: c is typed, or pasted (a
\* tab can only be pasted, the Tab key is taken by handleKeyDown).
TypeChar(c) ==
    /\ focused
    /\ pressed = NoPress
    /\ LET newValue == Substring(value, 0, selectionStart) \o <<c>>
                           \o SubstringFrom(value, selectionEnd)
       IN  handleTextareaChange(newValue, selectionStart + 1)

\* The user presses Backspace: the selection, or the character before the caret,
\* is removed.
Backspace ==
    /\ focused
    /\ pressed = NoPress
    /\ selectionStart < selectionEnd \/ selectionStart > 0
    /\ LET from == IF selectionStart < selectionEnd THEN selectionStart
                   ELSE selectionStart - 1
       IN  handleTextareaChange(
               Substring(value, 0, from) \o SubstringFrom(value, selectionEnd), from)

\* handleSelectionChange (onSelect, onMouseUp, onKeyUp) with the textarea's
\* selection at [start, end): a range closes the dropdown, a caret re-detects.
handleSelectionChange(start, end) ==
    /\ start <= end /\ end <= Len(value)
    /\ selectionStart' = start
    /\ selectionEnd' = end
    /\ mentionDropdown' = IF start # end
                          THEN [mentionDropdown EXCEPT !.isVisible = FALSE]
                          ELSE detectMention(mentionDropdown, value, start)
    /\ UNCHANGED <<value, history, historyIndex>>
    /\ HistoryEffect(historyTimer)
    /\ SelectedIndexEffect
    /\ Observe(0)
    /\ last' = Ran("handleSelectionChange", <<>>, -1, NoCall)
    /\ UNCHANGED <<parseVars, focused, blurTimers, mounted, layout>>

\* The user moves the caret or selects a range in the focused textarea, with the
\* mouse or the arrow keys; the press and its release are one step.
MoveCaret(start, end) ==
    /\ focused
    /\ pressed = NoPress
    /\ handleSelectionChange(start, end)
    /\ UNCHANGED pressed

\* A key other than Escape and Enter is released, or Escape or Enter is released
\* and onKeyUp runs handleSelectionChange on the selection as it is.
KeyUp ==
    /\ pressed.key \in {"Escape", "Enter", "ArrowDown", "ArrowUp"}
    /\ handleSelectionChange(selectionStart, selectionEnd)
    /\ pressed' = NoPress

UndoAllowed(index) == index > 0

\* undo (Ctrl+Z): if (historyIndex > 0) { setHistoryIndex(newIndex);
\* onChange(history[newIndex]) }
undo ==
    /\ IF UndoAllowed(historyIndex)
       THEN LET newIndex == historyIndex - 1
                caret == CaretAfterRender(HistoryAt(history, newIndex),
                                          selectionStart, selectionEnd)
            IN  /\ historyIndex' = newIndex
                /\ value' = HistoryAt(history, newIndex)
                /\ selectionStart' = caret[1]
                /\ selectionEnd' = caret[2]
                /\ last' = Ran("undo", <<>>, -1, HistoryAt(history, newIndex))
       ELSE /\ UNCHANGED <<historyIndex, value, selectionStart, selectionEnd>>
            /\ last' = Ran("undo", <<>>, -1, NoCall)
    /\ UNCHANGED <<history, mentionDropdown>>
    /\ HistoryEffect(historyTimer)
    /\ SelectedIndexEffect
    /\ Observe(0)
    /\ UNCHANGED <<parseVars, uiVars, layout>>

\* A mutation of RedoAllowed: an off-by-one in the boundary test.
RedoAllowedPastEnd(index, length) == index < length

RedoAllowed(index, length) == index < length - 1

\* redo (Ctrl+Y, Ctrl+Shift+Z): if (historyIndex < history.length - 1) {
\* setHistoryIndex(newIndex); onChange(history[newIndex]) }
redo ==
    /\ IF RedoAllowed(historyIndex, Len(history))
       THEN LET newIndex == historyIndex + 1
                caret == CaretAfterRender(HistoryAt(history, newIndex),
                                          selectionStart, selectionEnd)
            IN  /\ historyIndex' = newIndex
                /\ value' = HistoryAt(history, newIndex)
                /\ selectionStart' = caret[1]
                /\ selectionEnd' = caret[2]
                /\ last' = Ran("redo", <<>>, -1, HistoryAt(history, newIndex))
       ELSE /\ UNCHANGED <<historyIndex, value, selectionStart, selectionEnd>>
            /\ last' = Ran("redo", <<>>, -1, NoCall)
    /\ UNCHANGED <<history, mentionDropdown>>
    /\ HistoryEffect(historyTimer)
    /\ SelectedIndexEffect
    /\ Observe(0)
    /\ UNCHANGED <<parseVars, uiVars, layout>>

\* A mutation of TruncatedHistory: history.slice(0, historyIndex), which drops the
\* current snapshot too.
TruncatedHistoryShort(h, index) == SubSeq(h, 1, index)

\* A mutation of TruncatedHistory: no truncation, the redo entries are kept.
TruncatedHistoryKeepAll(h, index) == h

\* history.slice(0, historyIndex + 1)
TruncatedHistory(h, index) == SubSeq(h, 1, index + 1)

\* A mutation of OverLimit: the limit is never applied.
OverLimitNever(newHistory) == FALSE

\* if (newHistory.length > 100)
OverLimit(newHistory) == Len(newHistory) > HistoryLimit

\* The history timeout fires, 500 ms after the effect armed it: the callback of
\* setTimeout in the history effect.
HistoryTimeout ==
    /\ historyTimer = HistoryDelay
    /\ IF value # HistoryAt(history, historyIndex)
       THEN LET newHistory == Append(TruncatedHistory(history, historyIndex), value)
            IN  /\ IF OverLimit(newHistory)
                   THEN /\ history' = Tail(newHistory)
                        /\ UNCHANGED historyIndex
                   ELSE /\ history' = newHistory
                        /\ historyIndex' = historyIndex + 1
                /\ last' = Ran("historyTimeout", <<>>,
                               Len(history) - (historyIndex + 1), NoCall)
       ELSE /\ UNCHANGED <<history, historyIndex>>
            /\ last' = Ran("historyTimeout", <<>>, -1, NoCall)
    /\ UNCHANGED <<value, selectionStart, selectionEnd, mentionDropdown>>
    /\ HistoryEffect(NoTimer)
    /\ SelectedIndexEffect
    /\ Observe(0)
    /\ UNCHANGED <<parseVars, uiVars, layout>>

\* step ms pass with no event; a timeout that is due fires before more time passes.
Advance(step) ==
    /\ historyTimer # HistoryDelay
    /\ \A i \in DOMAIN blurTimers : blurTimers[i] # BlurDelay
    /\ blurTimers' = [i \in DOMAIN blurTimers |-> Min(blurTimers[i] + step, BlurDelay)]
    /\ UNCHANGED <<value, selectionStart, selectionEnd, history, historyIndex,
                   mentionDropdown>>
    /\ last' = Ran("advance", <<>>, -1, NoCall)
    /\ historyTimer' = IF historyTimer = NoTimer THEN NoTimer
                       ELSE Min(historyTimer + step, HistoryDelay)
    /\ Observe(step)
    /\ quiet' # quiet \/ historyTimer' # historyTimer \/ blurTimers' # blurTimers
    /\ UNCHANGED <<parseVars, focused, mounted, pressed, selectedIndex, layout>>

\* handleUserSelect(user): a candidate of the dropdown is chosen (Enter on the
\* highlighted one, or a click).  The dropdown renders only when it is visible and
\* has candidates.  setSelectionRange (setTimeout 0) clamps to the text.
handleUserSelect(user) ==
    /\ mentionDropdown.isVisible
    /\ LET beforeMention == Substring(value, 0, mentionDropdown.startIndex)
           afterCursor == SubstringFrom(value, selectionStart)
           newText == beforeMention \o <<"@">> \o user.username \o <<" ">> \o afterCursor
           newCursorPos == Len(beforeMention) + Len(user.username) + 2
       IN  /\ value' = newText
           /\ selectionStart' = Min(newCursorPos, Len(newText))
           /\ selectionEnd' = Min(newCursorPos, Len(newText))
           /\ last' = Ran("handleUserSelect", user.username, -1, newText)
           \* textareaRef.focus(): a textarea without focus gets a focus event, and
           \* handleTextareaFocus runs detectMention on the new text and caret.
           /\ mentionDropdown' =
                  IF focused THEN [mentionDropdown EXCEPT !.isVisible = FALSE]
                  ELSE detectMention([mentionDropdown EXCEPT !.isVisible = FALSE],
                                     newText, Min(newCursorPos, Len(newText)))
    /\ focused' = TRUE
    /\ UNCHANGED <<history, historyIndex>>
    /\ HistoryEffect(historyTimer)
    /\ SelectedIndexEffect
    /\ Observe(0)
    /\ UNCHANGED <<parseVars, blurTimers, mounted, layout>>

\* MentionDropdown renders (and dropdownRef.current is set) only when it is visible
\* and has candidates: if (!isVisible || filteredUsers.length === 0) return null.
DropdownRendered ==
    /\ mounted
    /\ mentionDropdown.isVisible
    /\ Len(filteredUsers(availableUsers, mentionDropdown.searchTerm)) # 0

\* MentionDropdown handleKeyDown, case 'Enter', with the dropdown visible and
\* some candidate highlighted (the arrow keys move the highlight over all of
\* them): onUserSelect(filteredUsers[selectedIndex]).  MarkdownEditor's
\* handleKeyDown returns at once for Enter while the dropdown is visible.
ChooseCandidate ==
    /\ focused
    /\ pressed = NoPress
    /\ selectedIndex < Len(filteredUsers(availableUsers, mentionDropdown.searchTerm))
    /\ handleUserSelect(
           filteredUsers(availableUsers, mentionDropdown.searchTerm)[selectedIndex + 1])
    /\ pressed' = Press("Enter", TRUE, <<>>)

\* What a key press in the focused textarea shares when it changes nothing of
\* the editor: the key is down, its release is still to come.
KeyDownOnly(key) ==
    /\ focused
    /\ pressed = NoPress
    /\ pressed' = Press(key, FALSE, <<>>)
    /\ UNCHANGED <<value, selectionStart, selectionEnd, history, historyIndex,
                   mentionDropdown>>
    /\ HistoryEffect(historyTimer)
    /\ Observe(0)
    /\ UNCHANGED <<parseVars, focused, blurTimers, mounted, layout>>

\* MentionDropdown handleKeyDown, case 'Enter', with the dropdown rendered and
\* no candidate at selectedIndex: if (filteredUsers[selectedIndex]) fails and
\* nothing is committed; the default (a line break) was prevented.
EnterWithoutCandidate ==
    /\ DropdownRendered
    /\ selectedIndex >= Len(filteredUsers(availableUsers, mentionDropdown.searchTerm))
    /\ KeyDownOnly("Enter")
    /\ UNCHANGED selectedIndex
    /\ last' = Ran("keydown Enter", <<>>, -1, NoCall)

\* case 'ArrowDown': prev < filteredUsers.length - 1 ? prev + 1 : 0
NextBelow(prev, length) == IF prev < length - 1 THEN prev + 1 ELSE 0

\* case 'ArrowUp': prev > 0 ? prev - 1 : filteredUsers.length - 1
NextAbove(prev, length) == IF prev > 0 THEN prev - 1 ELSE length - 1

\* MentionDropdown handleKeyDown, cases 'ArrowDown' and 'ArrowUp', with the
\* dropdown rendered.  MarkdownEditor's handleKeyDown returns at once.
ArrowDown ==
    /\ DropdownRendered
    /\ KeyDownOnly("ArrowDown")
    /\ selectedIndex' = NextBelow(selectedIndex,
           Len(filteredUsers(availableUsers, mentionDropdown.searchTerm)))
    /\ last' = Ran("keydown ArrowDown", <<>>, -1, NoCall)

ArrowUp ==
    /\ DropdownRendered
    /\ KeyDownOnly("ArrowUp")
    /\ selectedIndex' = NextAbove(selectedIndex,
           Len(filteredUsers(availableUsers, mentionDropdown.searchTerm)))
    /\ last' = Ran("keydown ArrowUp", <<>>, -1, NoCall)

\* The host page gives the editor another user list (setAvailableUsers).
HostSetUsers(users) ==
    /\ mounted
    /\ users # availableUsers
    /\ availableUsers' = users
    /\ UNCHANGED <<text, segments, parsed, rendered, pageVars>>
    /\ UNCHANGED <<value, selectionStart, selectionEnd, history, historyIndex,
                   mentionDropdown, selectedIndex>>
    /\ HistoryEffect(historyTimer)
    /\ Observe(0)
    /\ last' = Ran("setAvailableUsers", users, -1, NoCall)
    /\ UNCHANGED <<uiVars, layout>>

\* Escape goes down in the focused textarea.  MentionDropdown handleKeyDown (a
\* document listener while the dropdown is visible) calls onClose if there are
\* candidates; MarkdownEditor's handleKeyDown does nothing for Escape.
KeyDownEscape ==
    /\ focused
    /\ pressed = NoPress
    /\ mentionDropdown' = IF DropdownRendered
                          THEN [mentionDropdown EXCEPT !.isVisible = FALSE]
                          ELSE mentionDropdown
    /\ pressed' = Press("Escape", DropdownRendered, <<>>)
    /\ UNCHANGED <<value, selectionStart, selectionEnd, history, historyIndex>>
    /\ HistoryEffect(historyTimer)
    /\ SelectedIndexEffect
    /\ Observe(0)
    /\ last' = Ran("keydown Escape", <<>>, -1, NoCall)
    /\ UNCHANGED <<parseVars, focused, blurTimers, mounted, layout>>

\* The textarea loses focus to something outside the dropdown.  onBlur runs
\* handleTextareaBlur, which sets a timeout of 150 ms and keeps no handle to it;
\* the document's focusout listener (MentionDropdown handleFocusOut, there while
\* the dropdown is rendered) calls onClose, since relatedTarget is not inside the
\* dropdown: none of its elements can take focus.
TextareaLosesFocus ==
    /\ focused' = FALSE
    /\ blurTimers' = Append(blurTimers, 0)
    /\ mentionDropdown' = IF DropdownRendered
                          THEN [mentionDropdown EXCEPT !.isVisible = FALSE]
                          ELSE mentionDropdown

\* The user leaves the textarea: a click elsewhere on the page, or the Tab key.
Blur ==
    /\ mounted /\ focused /\ pressed = NoPress
    /\ TextareaLosesFocus
    /\ UNCHANGED <<value, selectionStart, selectionEnd, history, historyIndex>>
    /\ HistoryEffect(historyTimer)
    /\ SelectedIndexEffect
    /\ Observe(0)
    /\ last' = Ran("handleTextareaBlur", <<>>, -1, NoCall)
    /\ UNCHANGED <<parseVars, mounted, pressed, layout>>

\* Focus returns to the textarea, its selection as it was: handleTextareaFocus
\* runs detectMention(value, textareaRef.selectionStart).
Focus ==
    /\ mounted /\ ~focused /\ pressed = NoPress
    /\ focused' = TRUE
    /\ mentionDropdown' = detectMention(mentionDropdown, value, selectionStart)
    /\ UNCHANGED <<value, selectionStart, selectionEnd, history, historyIndex>>
    /\ HistoryEffect(historyTimer)
    /\ SelectedIndexEffect
    /\ Observe(0)
    /\ last' = Ran("handleTextareaFocus", <<>>, -1, NoCall)
    /\ UNCHANGED <<parseVars, blurTimers, mounted, pressed, layout>>

\* The mouse button goes down on a candidate of the rendered dropdown.
\* handleClickOutside does nothing (the target is inside the dropdown); the
\* candidate cannot take focus, so a focused textarea loses it.
MouseDownCandidate(user) ==
    /\ DropdownRendered
    /\ pressed = NoPress
    /\ \E k \in 1..Len(filteredUsers(availableUsers, mentionDropdown.searchTerm)) :
          filteredUsers(availableUsers, mentionDropdown.searchTerm)[k] = user
    /\ IF focused THEN TextareaLosesFocus
       ELSE UNCHANGED <<focused, blurTimers, mentionDropdown>>
    /\ pressed' = Press("mouse", focused, user)
    /\ UNCHANGED <<value, selectionStart, selectionEnd, history, historyIndex>>
    /\ HistoryEffect(historyTimer)
    /\ SelectedIndexEffect
    /\ Observe(0)
    /\ last' = Ran("mousedown candidate", user.username, -1, NoCall)
    /\ UNCHANGED <<parseVars, mounted, layout>>

\* The button is released.  If the candidate is still in the document the click
\* reaches its onClick, onUserSelect(user).  If the dropdown was taken out of the
\* document meanwhile, the release lands on what lies beneath it: the textarea
\* (onMouseUp runs handleSelectionChange) or something else.
MouseUp(overTextarea) ==
    /\ pressed.key = "mouse"
    /\ pressed' = NoPress
    /\ IF DropdownRendered /\ ~pressed.closed
       THEN handleUserSelect(pressed.on)
       ELSE IF overTextarea /\ mounted
       THEN handleSelectionChange(selectionStart, selectionEnd)
       ELSE /\ UNCHANGED <<value, selectionStart, selectionEnd, history, historyIndex,
                           mentionDropdown>>
            /\ HistoryEffect(historyTimer)
            /\ SelectedIndexEffect
            /\ Observe(0)
            /\ last' = Ran("mouseup", <<>>, -1, NoCall)
            /\ UNCHANGED <<parseVars, focused, blurTimers, mounted, layout>>

\* A blur timeout fires, 150 ms after handleTextareaBlur set it:
\* setMentionDropdown(prev => ({ ...prev, isVisible: false })).  React drops the
\* update when the editor is no longer mounted.
BlurTimeout ==
    /\ \E i \in DOMAIN blurTimers :
          /\ blurTimers[i] = BlurDelay
          /\ \A j \in 1..(i - 1) : blurTimers[j] # BlurDelay
          /\ blurTimers' = SubSeq(blurTimers, 1, i - 1)
                               \o SubSeq(blurTimers, i + 1, Len(blurTimers))
    /\ mentionDropdown' = IF mounted THEN [mentionDropdown EXCEPT !.isVisible = FALSE]
                          ELSE mentionDropdown
    /\ UNCHANGED <<value, selectionStart, selectionEnd, history, historyIndex>>
    /\ HistoryEffect(historyTimer)
    /\ SelectedIndexEffect
    /\ Observe(0)
    /\ last' = Ran("blurTimeout", <<>>, -1, NoCall)
    /\ UNCHANGED <<parseVars, focused, mounted, pressed, layout>>

\* The page takes the editor out (the user followed a link after leaving the
\* textarea).  The history effect's cleanup clears its timeout; nothing clears
\* the blur timeouts.
Unmount ==
    /\ mounted /\ ~focused /\ pressed = NoPress
    /\ mounted' = FALSE
    /\ historyTimer' = NoTimer
    /\ UNCHANGED <<value, selectionStart, selectionEnd, history, historyIndex,
                   mentionDropdown, blurTimers, focused, pressed>>
    /\ Observe(0)
    /\ last' = Ran("unmount", <<>>, -1, NoCall)
    /\ UNCHANGED <<parseVars, selectedIndex, layout>>

(***************************************************************************)
(* MarkdownEditor: the toolbar.                                            *)
(***************************************************************************)
\* What insertText, insertSimpleText and handleHeading share: onChange(newText),
\* then (setTimeout 0) textareaRef.setSelectionRange(newCursorStart, newCursorEnd),
\* which clamps to the text, and textareaRef.focus(), which gives a textarea
\* without focus a focus event: handleTextareaFocus runs detectMention.
ToolbarEdit(op, arg, newText, newCursorStart, newCursorEnd) ==
    /\ mounted
    /\ pressed = NoPress
    /\ value' = newText
    /\ selectionStart' = Min(newCursorStart, Len(newText))
    /\ selectionEnd' = Min(newCursorEnd, Len(newText))
    /\ focused' = TRUE
    /\ mentionDropdown' =
           IF focused THEN mentionDropdown
           ELSE detectMention(mentionDropdown, newText, Min(newCursorStart, Len(newText)))
    /\ UNCHANGED <<history, historyIndex>>
    /\ HistoryEffect(historyTimer)
    /\ SelectedIndexEffect
    /\ Observe(0)
    /\ last' = Ran(op, arg, -1, newText)
    /\ UNCHANGED <<parseVars, blurTimers, mounted, pressed, layout>>

\* A mutation of WrappedStart: the selection starts at the opening marker.
WrappedStartAtMarker(startPos, before) == startPos

\* newCursorStart = startPos + before.length
WrappedStart(startPos, before) == startPos + Len(before)

\* insertText(before, after, placeholder)
insertText(before, after, placeholder) ==
    LET startPos == selectionStart
        endPos == selectionEnd
        selectedText == Substring(value, startPos, endPos)
        inserted == before \o placeholder \o after
    IN  IF selectedText # <<>>
        THEN ToolbarEdit("insertText", <<before, after, placeholder>>,
                 Substring(value, 0, startPos) \o before \o selectedText \o after
                     \o SubstringFrom(value, endPos),
                 WrappedStart(startPos, before),
                 WrappedStart(startPos, before) + Len(selectedText))
        ELSE ToolbarEdit("insertText", <<before, after, placeholder>>,
                 Substring(value, 0, startPos) \o inserted \o SubstringFrom(value, endPos),
                 IF placeholder # <<>> THEN WrappedStart(startPos, before)
                 ELSE startPos + Len(inserted),
                 IF placeholder # <<>> THEN WrappedStart(startPos, before) + Len(placeholder)
                 ELSE startPos + Len(inserted))

\* insertSimpleText(textToInsert)
insertSimpleText(textToInsert) ==
    LET startPos == selectionStart
        endPos == selectionEnd
    IN  ToolbarEdit("insertSimpleText", textToInsert,
            Substring(value, 0, startPos) \o textToInsert \o SubstringFrom(value, endPos),
            startPos + Len(textToInsert),
            startPos + Len(textToInsert))

\* What insertSimpleText is called with: toolbarActions divider, hashtag and
\* mention, and handleKeyDown for Tab.  (toolbarActions.codeBlock passes a fence
\* of backquotes through the same function.)
SimpleInsertions ==
    { <<"\n", "-", "-", "-", "\n">>,
      <<"#", "h", "a", "s", "h", "t", "a", "g", " ">>,
      <<"@", "u", "s", "e", "r", "n", "a", "m", "e", " ">>,
      <<" ", " ">> }

\* toolbarActions: the entries that call insertText with a placeholder, but for
\* `code`, which differs from italic in its one-character marker only.
WrapActions ==
    {
     [name |-> "bold", before |-> <<"*", "*">>, after |-> <<"*", "*">>,
      placeholder |-> <<"b", "o", "l", "d", " ", "t", "e", "x", "t">>],
     [name |-> "italic", before |-> <<"*">>, after |-> <<"*">>,
      placeholder |-> <<"i", "t", "a", "l", "i", "c", " ", "t", "e", "x", "t">>],
     [name |-> "strikethrough", before |-> <<"~", "~">>, after |-> <<"~", "~">>,
      placeholder |-> <<"s", "t", "r", "i", "k", "e", "t", "h", "r", "o", "u", "g", "h", " ", "t", "e", "x", "t">>],
     [name |-> "link", before |-> <<"[">>, after |-> <<"]", "(", "u", "r", "l", ")">>,
      placeholder |-> <<"l", "i", "n", "k", " ", "t", "e", "x", "t">>],
     [name |-> "image", before |-> <<"!", "[">>, after |-> <<"]", "(", "i", "m", "a", "g", "e", "-", "u", "r", "l", ")">>,
      placeholder |-> <<"a", "l", "t", " ", "t", "e", "x", "t">>],
     [name |-> "list", before |-> <<"-", " ">>, after |-> <<>>,
      placeholder |-> <<"L", "i", "s", "t", " ", "i", "t", "e", "m">>],
     [name |-> "orderedList", before |-> <<"1", ".", " ">>, after |-> <<>>,
      placeholder |-> <<"N", "u", "m", "b", "e", "r", "e", "d", " ", "i", "t", "e", "m">>],
     [name |-> "quote", before |-> <<">", " ">>, after |-> <<>>,
      placeholder |-> <<"Q", "u", "o", "t", "e">>]}

\* #+ at the start of line: the length of the run of '#' characters.
HashRun(line) ==
    CHOOSE n \in 0..Len(line) :
        /\ \A i \in 0..(n - 1) : CharAt(line, i) = "#"
        /\ n >= Len(line) \/ CharAt(line, n) # "#"

\* \s* from 0-based position from on: the length of the run of whitespace.
WhitespaceRun(line, from) ==
    CHOOSE n \in 0..Max(0, Len(line) - from) :
        /\ \A i \in from..(from + n - 1) : IsWhitespace(CharAt(line, i))
        /\ from + n >= Len(line) \/ ~IsWhitespace(CharAt(line, from + n))

\* lineBeforeSelection.match(/^(#+)\s*/): the lengths of group 1 and of the whole
\* match, or NoMatch.
MatchHashes(line) ==
    LET hashes == HashRun(line)
    IN  IF hashes = 0 THEN NoMatch
        ELSE [group1 |-> hashes, all |-> hashes + WhitespaceRun(line, hashes)]

\* A mutation of BelowMaxLevel: a seventh level is allowed.
BelowMaxLevelInclusive(currentHashes) == currentHashes <= MaxHeadingLevel

\* if (currentHashes.length < 6)
BelowMaxLevel(currentHashes) == currentHashes < MaxHeadingLevel

\* handleHeading
handleHeading ==
    LET startPos == selectionStart
        endPos == selectionEnd
        selectedText == Substring(value, startPos, endPos)
        beforeCursor == Substring(value, 0, startPos)
        lineStartIndex == LastIndexOf(beforeCursor, "\n") + 1
        lineBeforeSelection == Substring(value, lineStartIndex, startPos)
        existingHashes == MatchHashes(lineBeforeSelection)
        insertionText == <<"#", " ", "H", "e", "a", "d", "i", "n", "g">>
    IN  IF existingHashes # NoMatch
        THEN IF BelowMaxLevel(existingHashes.group1)
             THEN ToolbarEdit("handleHeading", <<>>,
                      Substring(value, 0, lineStartIndex)
                          \o [i \in 1..(existingHashes.group1 + 1) |-> "#"] \o <<" ">>
                          \o SubstringFrom(value, lineStartIndex + existingHashes.all),
                      startPos + 1, endPos + 1)
             ELSE ToolbarEdit("handleHeading", <<>>,
                      Substring(value, 0, lineStartIndex)
                          \o SubstringFrom(value, lineStartIndex + existingHashes.all),
                      Max(lineStartIndex, startPos - existingHashes.all),
                      Max(lineStartIndex, endPos - existingHashes.all))
        ELSE IF selectedText # <<>>
             THEN ToolbarEdit("handleHeading", <<>>,
                      Substring(value, 0, lineStartIndex) \o <<"#", " ">>
                          \o Substring(value, lineStartIndex, startPos) \o selectedText
                          \o SubstringFrom(value, endPos),
                      startPos + 2, endPos + 2)
             ELSE ToolbarEdit("handleHeading", <<>>,
                      Substring(value, 0, lineStartIndex) \o insertionText
                          \o SubstringFrom(value, lineStartIndex),
                      lineStartIndex + 2, lineStartIndex + Len(insertionText))

\* The host page replaces the buffer: setAnswerContent('') once a submitted answer
\* is stored (QuestionDetail handleAnswerSubmit), setContent('') in AskQuestion.
HostSetValue(newValue) ==
    /\ newValue # value
    /\ value' = newValue
    /\ selectionStart' = Len(newValue)
    /\ selectionEnd' = Len(newValue)
    /\ UNCHANGED <<history, historyIndex, mentionDropdown>>
    /\ HistoryEffect(historyTimer)
    /\ SelectedIndexEffect
    /\ Observe(0)
    /\ last' = Ran("hostSetValue", <<>>, -1, NoCall)
    /\ UNCHANGED <<parseVars, uiVars, layout>>

(***************************************************************************)
(* MentionDropdown: where the dropdown is placed.                          *)
(***************************************************************************)
\* The window and no dropdown placed in it.
Window(innerWidth, innerHeight) ==
    [rendered |-> FALSE, innerWidth |-> innerWidth, innerHeight |-> innerHeight]

\* detectMention's dropdownPosition for a caret whose line ends at caretTop and
\* whose column is at caretLeft (both from the textarea's rectangle, padding,
\* scroll offsets and font metrics).
dropdownPosition(caretTop, caretLeft, innerWidth) ==
    [top |-> caretTop, left |-> Min(caretLeft, innerWidth - AnchorRightGap)]

\* getAdjustedPosition, the bottom edge: show above the cursor.
FlippedTop(top, innerHeight) ==
    IF top + dropdownHeight > innerHeight - padding
    THEN top - dropdownHeight - AboveCursorGap
    ELSE top

\* getAdjustedPosition, the right edge and then the left edge.
ClampedLeft(left, innerWidth) ==
    LET fromRight == IF left + dropdownWidth > innerWidth - padding
                     THEN innerWidth - dropdownWidth - padding
                     ELSE left
    IN  IF fromRight < padding THEN padding ELSE fromRight

\* getAdjustedPosition() for currentPosition in a window of the given size.
getAdjustedPosition(currentPosition, innerWidth, innerHeight) ==
    LET flipped == FlippedTop(currentPosition.top, innerHeight)
    IN  [top  |-> IF flipped < padding THEN padding ELSE flipped,
         left |-> ClampedLeft(currentPosition.left, innerWidth)]

\* MentionDropdown renders with the position prop it was given: visible and with
\* candidates, it computes getAdjustedPosition() and places itself there.
RenderDropdown(position) ==
    /\ DropdownRendered
    /\ layout' = [rendered    |-> TRUE,
                  innerWidth  |-> layout.innerWidth,
                  innerHeight |-> layout.innerHeight,
                  position    |-> position,
                  adjusted    |-> getAdjustedPosition(position, layout.innerWidth,
                                                      layout.innerHeight)]
    /\ layout' # layout
    /\ UNCHANGED <<value, selectionStart, selectionEnd, history, historyIndex,
                   mentionDropdown>>
    /\ HistoryEffect(historyTimer)
    /\ SelectedIndexEffect
    /\ Observe(0)
    /\ last' = Ran("render MentionDropdown", position, -1, NoCall)
    /\ UNCHANGED <<parseVars, uiVars>>

\* The window is resized.  handleResize, a listener while the dropdown is
\* visible, calls onClose.
Resize(innerWidth, innerHeight) ==
    /\ <<innerWidth, innerHeight>> # <<layout.innerWidth, layout.innerHeight>>
    /\ layout' = Window(innerWidth, innerHeight)
    /\ mentionDropdown' = IF mounted /\ mentionDropdown.isVisible
                          THEN [mentionDropdown EXCEPT !.isVisible = FALSE]
                          ELSE mentionDropdown
    /\ UNCHANGED <<value, selectionStart, selectionEnd, history, historyIndex>>
    /\ HistoryEffect(historyTimer)
    /\ SelectedIndexEffect
    /\ Observe(0)
    /\ last' = Ran("handleResize", <<innerWidth, innerHeight>>, -1, NoCall)
    /\ UNCHANGED <<parseVars, uiVars>>

(***************************************************************************)
(* Spec: the edit history.  The user types and deletes at the end of the   *)
(* buffer, pauses, undoes and redoes; the host page may clear the buffer.  *)
(***************************************************************************)
EditorAlphabet == {"a", "@"}
TimeSteps == {250}

Init ==
    /\ text = <<>>
    /\ availableUsers = <<alice, bob>>
    /\ segments = <<>>
    /\ parsed = FALSE
    /\ rendered = NotRendered
    /\ PageRendered
    /\ EditorMounted(<<>>)
    /\ Page(TRUE)

\* The model takes a checkpoint only while the stack stays within MaxSnapshots.
CheckpointWithinBound ==
    value = HistoryAt(history, historyIndex) \/ historyIndex + 2 <= MaxSnapshots

Next ==
    \/ \E c \in EditorAlphabet : Len(value) < MaxLen /\ TypeChar(c)
    \/ Backspace
    \/ undo
    \/ redo
    \/ CheckpointWithinBound /\ HistoryTimeout
    \/ \E step \in TimeSteps : Advance(step)
    \/ HostSetValue(<<>>)

Spec == Init /\ [][Next]_vars

(***************************************************************************)
(* SpecCap: the history limit.  One keystroke per pause, so that every     *)
(* pause takes a checkpoint, up to ExtraPushes checkpoints past the limit; *)
(* undo goes at most MaxUndoDepth below the top of the stack.              *)
(***************************************************************************)
NextCap ==
    \/ /\ value = HistoryAt(history, historyIndex)
       /\ Len(value) < HistoryLimit + ExtraPushes
       /\ TypeChar("a")
    \/ Len(history) - historyIndex <= MaxUndoDepth /\ undo
    \/ redo
    \/ HistoryTimeout
    \/ \E step \in TimeSteps : Advance(step)

SpecCap == Init /\ [][NextCap]_vars

(***************************************************************************)
(* SpecMention: the mention dropdown.  The user types over {@, a, space,   *)
(* tab}, deletes, moves the caret or selects, chooses candidates with      *)
(* Enter and presses Escape, faster than the history timeout; the host     *)
(* page may clear the buffer.                                              *)
(***************************************************************************)
MentionAlphabet == {"@", "a", " ", "\t"}

NextMention ==
    \/ \E c \in MentionAlphabet : Len(value) < MaxMentionLen /\ TypeChar(c)
    \/ Backspace
    \/ \E start, end \in 0..Len(value) : MoveCaret(start, end)
    \/ Len(value) <= MaxMentionLen /\ ChooseCandidate
    \/ ArrowDown
    \/ ArrowUp
    \/ KeyDownEscape
    \/ KeyUp
    \/ HostSetValue(<<>>)

SpecMention == Init /\ [][NextMention]_vars

(***************************************************************************)
(* SpecFocus: focus, blur and the mouse.  The user types "@", leaves and   *)
(* re-enters the textarea, clicks candidates of the dropdown and leaves    *)
(* the page, while the blur and history timeouts run.                      *)
(***************************************************************************)
FocusAlphabet == {"@"}
FocusTimeSteps == {50}

InitFocus ==
    /\ text = <<>>
    /\ availableUsers = <<alice, bob>>
    /\ segments = <<>>
    /\ parsed = FALSE
    /\ rendered = NotRendered
    /\ PageRendered
    /\ EditorMounted(<<>>)
    /\ Page(FALSE)

NextFocus ==
    \/ \E c \in FocusAlphabet : mounted /\ value = <<>> /\ TypeChar(c)
    \/ Focus
    \/ Len(blurTimers) < MaxBlurTimers /\ Blur
    \/ \E user \in {alice, bob} : Len(blurTimers) < MaxBlurTimers /\ MouseDownCandidate(user)
    \/ \E overTextarea \in BOOLEAN : MouseUp(overTextarea)
    \/ BlurTimeout
    \/ HistoryTimeout
    \/ \E step \in FocusTimeSteps : Advance(step)
    \/ Unmount

SpecFocus == InitFocus /\ [][NextFocus]_vars

(***************************************************************************)
(* SpecToolbar: the toolbar.  The editor is mounted on a document of up to *)
(* three lines, the middle one blank, a heading of any level or "hi"; the  *)
(* user clicks into it, places the selection, and uses the toolbar: one    *)
(* wrapping action on the document as mounted, the heading action any      *)
(* number of times.  The loss of focus that a click on a toolbar button    *)
(* causes and the timeouts are explored in SpecFocus.                      *)
(***************************************************************************)
Hashes(k) == [i \in 1..k |-> "#"]

ToolbarLines ==
    {<<>>, <<"h", "i">>}
    \cup {Hashes(k) \o <<" ">> \o body :
              k \in 1..MaxHeadingLevel, body \in StringsUpTo({"a"}, MaxBodyLen)}

ToolbarDocs ==
    {pre \o line \o post :
        pre \in {<<>>, <<"x", "\n">>}, line \in ToolbarLines,
        post \in {<<>>, <<"\n", "y">>}}

InitToolbar ==
    /\ text = <<>>
    /\ availableUsers = <<alice, bob>>
    /\ segments = <<>>
    /\ parsed = FALSE
    /\ rendered = NotRendered
    /\ PageRendered
    /\ \E initial \in ToolbarDocs : EditorMounted(initial)
    /\ Page(FALSE)

NextToolbar ==
    \/ Focus
    \/ \E start, end \in 0..Len(value) : value = history[1] /\ MoveCaret(start, end)
    \/ \E w \in WrapActions :
          value = history[1] /\ insertText(w.before, w.after, w.placeholder)
    \/ \E textToInsert \in SimpleInsertions :
          value = history[1] /\ insertSimpleText(textToInsert)
    \/ handleHeading

SpecToolbar == InitToolbar /\ [][NextToolbar]_vars

(***************************************************************************)
(* SpecLayout: the placement of the dropdown.  The page opens in a window  *)
(* of some size; the user types "@", the dropdown is rendered at the       *)
(* position it is given, the window is resized.                            *)
(***************************************************************************)
ViewportWidths == {300, 320, 500, 1280}
ViewportHeights == {200, 220, 600}
AnchorLefts == {-5, 0, 10, 180, 190, 191, 450, 960, 1000}
AnchorTops == {-20, 10, 100, 380, 381, 620, 621, 700}
Anchors == [top : AnchorTops, left : AnchorLefts]

InitLayout ==
    /\ text = <<>>
    /\ availableUsers = <<alice, bob>>
    /\ segments = <<>>
    /\ parsed = FALSE
    /\ rendered = NotRendered
    /\ PageRendered
    /\ EditorMounted(<<>>)
    /\ \E w \in ViewportWidths, h \in ViewportHeights : PageIn(TRUE, Window(w, h))

NextLayout ==
    \/ \E c \in FocusAlphabet : value = <<>> /\ TypeChar(c)
    \/ \E start \in 0..Len(value) : MoveCaret(start, start)
    \/ \E position \in Anchors : RenderDropdown(position)
    \/ \E caretTop \in AnchorTops, caretLeft \in AnchorLefts :
          RenderDropdown(dropdownPosition(caretTop, caretLeft, layout.innerWidth))
    \/ \E w \in ViewportWidths, h \in ViewportHeights : Resize(w, h)

SpecLayout == InitLayout /\ [][NextLayout]_vars

(***************************************************************************)
(* SpecQuiesce: the history timeout under fair scheduling.  The user edits *)
(* only while a checkpoint of the edit still fits within MaxSnapshots      *)
(* (undo makes room again), so that the timeout itself is never held back; *)
(* a due timeout fires and time passes (weak fairness: the browser's event *)
(* loop runs every timer that is due).                                     *)
(***************************************************************************)
CheckpointFits == historyIndex + 2 <= MaxSnapshots
QuiesceAlphabet == {"a"}

NextQuiesce ==
    \/ \E c \in QuiesceAlphabet : CheckpointFits /\ Len(value) < MaxLen /\ TypeChar(c)
    \/ CheckpointFits /\ Backspace
    \/ undo
    \/ redo
    \/ HistoryTimeout
    \/ \E step \in TimeSteps : Advance(step)
    \/ CheckpointFits /\ HostSetValue(<<>>)

TimersRun ==
    /\ WF_vars(HistoryTimeout)
    /\ WF_vars(\E step \in TimeSteps : Advance(step))

SpecQuiesce == Init /\ [][NextQuiesce]_vars /\ TimersRun

(***************************************************************************)
(* SpecSelect: the highlighted candidate.  The user types "@" and "a",     *)
(* deletes, moves the highlight with the arrow keys, presses Enter and     *)
(* Escape, while the host page may give the editor another user list.      *)
(***************************************************************************)
carol == [uid |-> "u3", username |-> <<"a", "b">>]
dave == [uid |-> "u4", username |-> <<"a", "c">>]
erin == [uid |-> "u5", username |-> <<"a", "d">>]
frank == [uid |-> "u6", username |-> <<"a", "e">>]
Crowd == <<alice, bob, carol, dave, erin, frank>>
SelectUserLists == {<<alice>>, <<alice, bob>>, Crowd}
SelectAlphabet == {"@", "a"}

InitSelect ==
    /\ text = <<>>
    /\ availableUsers \in SelectUserLists
    /\ segments = <<>>
    /\ parsed = FALSE
    /\ rendered = NotRendered
    /\ PageRendered
    /\ EditorMounted(<<>>)
    /\ Page(TRUE)

NextSelect ==
    \/ \E c \in SelectAlphabet : Len(value) < MaxLen /\ TypeChar(c)
    \/ Backspace
    \/ ArrowDown
    \/ ArrowUp
    \/ ChooseCandidate
    \/ EnterWithoutCandidate
    \/ KeyDownEscape
    \/ KeyUp
    \/ \E users \in SelectUserLists : pressed = NoPress /\ HostSetUsers(users)

SpecSelect == InitSelect /\ [][NextSelect]_vars

(***************************************************************************)
(* ImageModal: the zoom overlay of a MarkdownRenderer.                     *)
(***************************************************************************)
\* What the actions of the overlay leave alone.
EditorUntouched ==
    /\ UNCHANGED <<text, availableUsers, segments, parsed, rendered>>
    /\ UNCHANGED <<value, selectionStart, selectionEnd, history, historyIndex,
                   historyTimer, mentionDropdown, quiet, selectedIndex>>
    /\ UNCHANGED <<uiVars, layout>>

\* ImageModal's effect, deps [isOpen, isFullscreen, onClose], after a render of
\* renderer r: the cleanup of the previous run sets overflow to 'unset', and
\* the new run sets 'hidden' if the modal is open.
OverflowEffect(r) ==
    bodyOverflow' = IF imageModal'[r].isOpen THEN "hidden" ELSE "unset"

\* The overlay covers the page (fixed inset-0): while one is open, no image
\* under it can be clicked.
SomeModalOpen == \E r \in Renderers : imageModal[r].isOpen

\* img onClick: openImageModal(src, alt, title).
openImageModal(r, image) ==
    /\ ~SomeModalOpen
    /\ imageModal' = [imageModal EXCEPT ![r].isOpen = TRUE, ![r].image = image]
    /\ OverflowEffect(r)
    /\ last' = Ran("openImageModal", <<r, image>>, -1, NoCall)
    /\ EditorUntouched
    /\ UNCHANGED <<voteDoc, voteCalls>>

\* closeImageModal (the onClose of the ImageModal of r).
Closed(modal) == [modal EXCEPT !.isOpen = FALSE, !.image = NoImage]

\* handleEscape: if (isFullscreen) setIsFullscreen(false) else onClose().
AfterEscape(modal) ==
    IF modal.isFullscreen THEN [modal EXCEPT !.isFullscreen = FALSE] ELSE Closed(modal)

\* Escape is pressed while the ImageModal of r is open (its keydown listener is
\* on the document only then).
handleEscape(r) ==
    /\ imageModal[r].isOpen
    /\ imageModal' = [imageModal EXCEPT ![r] = AfterEscape(imageModal[r])]
    /\ OverflowEffect(r)
    /\ last' = Ran("handleEscape", r, -1, NoCall)
    /\ EditorUntouched
    /\ UNCHANGED <<voteDoc, voteCalls>>

\* toggleFullscreen: setIsFullscreen(!isFullscreen).
toggleFullscreen(r) ==
    /\ imageModal[r].isOpen
    /\ imageModal' = [imageModal EXCEPT ![r].isFullscreen = ~imageModal[r].isFullscreen]
    /\ OverflowEffect(r)
    /\ last' = Ran("toggleFullscreen", r, -1, NoCall)
    /\ EditorUntouched
    /\ UNCHANGED <<voteDoc, voteCalls>>

\* The close button, or handleBackdropClick on the backdrop itself: onClose().
CloseClick(r) ==
    /\ imageModal[r].isOpen
    /\ imageModal' = [imageModal EXCEPT ![r] = Closed(imageModal[r])]
    /\ OverflowEffect(r)
    /\ last' = Ran("onClose", r, -1, NoCall)
    /\ EditorUntouched
    /\ UNCHANGED <<voteDoc, voteCalls>>

(***************************************************************************)
(* SpecModal: a page with two renderers; the user opens images, toggles    *)
(* fullscreen, presses Escape, closes by click.                            *)
(***************************************************************************)
Images ==
    [src : {<<"a">>, <<"b">>, <<"c">>}, alt : {<<>>, <<"p">>}, title : {<<>>, <<"t">>}]

NextModal ==
    \E r \in Renderers :
        \/ \E image \in Images : openImageModal(r, image)
        \/ handleEscape(r)
        \/ toggleFullscreen(r)
        \/ CloseClick(r)

SpecModal == Init /\ [][NextModal]_vars

(***************************************************************************)
(* handleVote (Home and QuestionDetail).                                   *)
(***************************************************************************)
\* voteChange for a click on `vote` by a user whose recorded vote is currentVote.
VoteChange(currentVote, vote) ==
    IF currentVote = vote THEN (IF vote = "up" THEN -1 ELSE 1)
    ELSE IF currentVote # "none" THEN (IF vote = "up" THEN 2 ELSE -2)
    ELSE (IF vote = "up" THEN 1 ELSE -1)

\* newUserVotes: the entry deleted on a click on the same vote, set otherwise.
NewUserVotes(userVotes, uid, vote) ==
    [userVotes EXCEPT ![uid] = IF userVotes[uid] = vote THEN "none" ELSE vote]

\* handleVote up to its updateDoc: getDoc has returned the document as it is
\* now, and the call has computed voteChange and newUserVotes from it.
VoteRead(uid, vote) ==
    /\ Len(voteCalls) < MaxPendingVotes
    /\ voteDoc.votes \in (-MaxTally)..MaxTally
    /\ voteCalls' = Append(voteCalls,
           [uid |-> uid, vote |-> vote, seen |-> voteDoc.userVotes,
            voteChange |-> VoteChange(voteDoc.userVotes[uid], vote),
            newUserVotes |-> NewUserVotes(voteDoc.userVotes, uid, vote)])
    /\ UNCHANGED voteDoc
    /\ last' = Ran("getDoc", <<uid, vote>>, -1, NoCall)
    /\ EditorUntouched
    /\ UNCHANGED <<imageModal, bodyOverflow>>

\* updateDoc(docRef, {votes: increment(voteChange), userVotes: newUserVotes}) of
\* the i-th call under way: the increment is applied to the votes the document
\* has now, the map is replaced by the one the call computed.
VoteWrite(i) ==
    /\ i \in 1..Len(voteCalls)
    /\ voteDoc' = [votes |-> voteDoc.votes + voteCalls[i].voteChange,
                   userVotes |-> voteCalls[i].newUserVotes]
    /\ voteCalls' = SubSeq(voteCalls, 1, i - 1) \o SubSeq(voteCalls, i + 1, Len(voteCalls))
    /\ last' = Ran("updateDoc", voteCalls[i], -1, NoCall)
    /\ EditorUntouched
    /\ UNCHANGED <<imageModal, bodyOverflow>>

(***************************************************************************)
(* SpecVote: two users vote on one document, from any number of clients;   *)
(* up to MaxPendingVotes calls are under way at a time.                    *)
(***************************************************************************)
InitVote ==
    /\ text = <<>>
    /\ availableUsers = <<alice, bob>>
    /\ segments = <<>>
    /\ parsed = FALSE
    /\ rendered = NotRendered
    /\ \E userVotes \in [Voters -> {"none", "up", "down"}] :
          PageRenderedWith(VotedDoc(userVotes))
    /\ EditorMounted(<<>>)
    /\ Page(FALSE)

NextVote ==
    \/ \E uid \in Voters, vote \in {"up", "down"} : VoteRead(uid, vote)
    \/ \E i \in 1..MaxPendingVotes : VoteWrite(i)

SpecVote == InitVote /\ [][NextVote]_vars

(***************************************************************************)
(* SpecParse: the tokenizer applied to every bounded input.                *)
(***************************************************************************)
InitParse ==
    /\ text \in StringsUpTo(TextAlphabet, MaxTextLen)
    /\ availableUsers \in UserLists
    /\ segments = <<>>
    /\ parsed = FALSE
    /\ rendered = NotRendered
    /\ PageRendered
    /\ EditorMounted(<<>>)
    /\ Page(TRUE)

Tokenize ==
    /\ ~parsed
    /\ segments' = parseTextWithTagsAndMentions(text, availableUsers)
    /\ parsed' = TRUE
    /\ UNCHANGED <<text, availableUsers, rendered, pageVars>>
    /\ UNCHANGED <<editorVars, uiVars, layout>>

NextParse == Tokenize

SpecParse == InitParse /\ [][NextParse]_vars

(***************************************************************************)
(* MarkdownRenderer: the components given to ReactMarkdown.                *)
(***************************************************************************)
\* The children a component receives: strings (the text of the node) and
\* elements (here the <br> that remark-breaks makes of a line break).
StringChild(s) == [isString |-> TRUE, content |-> s]
LineBreak == [isString |-> FALSE, content |-> <<"b", "r">>]

\* A child put into the output as it is, and a string child replaced by the
\* spans of its segments.
Verbatim(child) == [via |-> "verbatim", child |-> child]
Spans(segs) == [via |-> "TextRenderer", spans |-> segs]

\* TextRenderer: if (!children || typeof children !== 'string') return children;
\* else one span for each segment of parseTextWithTagsAndMentions.
TextRenderer(children, users) ==
    IF ~children.isString \/ children.content = <<>>
    THEN Verbatim(children)
    ELSE Spans(parseTextWithTagsAndMentions(children.content, users))

\* The element kinds for which `components` has a renderer, and those of them
\* whose renderer maps its children with React.Children.map, giving every
\* string child to TextRenderer.  (The entry `text` is a renderer for elements
\* named text; ReactMarkdown makes no element of a text node, so it is not run.)
ComponentKinds ==
    {"a", "code", "pre", "blockquote", "table", "th", "td",
     "h1", "h2", "h3", "h4", "h5", "h6", "ul", "ol", "li", "p", "em", "strong", "del"}
MappingKinds ==
    {"blockquote", "h1", "h2", "h3", "h4", "h5", "h6", "li", "p", "em", "strong", "del"}

\* What the component of an element kind puts into the element for its children.
ComponentChildren(kind, children, users) ==
    [i \in 1..Len(children) |->
        IF kind \in MappingKinds /\ children[i].isString
        THEN TextRenderer(children[i], users)
        ELSE Verbatim(children[i])]

\* ReactMarkdown renders an element of the tree with its component.
RenderElement(kind, children) ==
    /\ rendered = NotRendered
    /\ rendered' = [kind |-> kind, children |-> children,
                    shown |-> ComponentChildren(kind, children, availableUsers)]
    /\ UNCHANGED <<text, availableUsers, segments, parsed, pageVars>>
    /\ UNCHANGED <<editorVars, uiVars, layout>>

(***************************************************************************)
(* SpecRender: one element of a markdown document, of every kind that has  *)
(* a component, with a text in it (alone, or next to a line break).        *)
(***************************************************************************)
RenderAlphabet == {"a", "#", "@", " "}
alice5 == [uid |-> "u3", username |-> <<"a", "l", "i", "c", "e">>]
TitleText ==
    <<"T", "i", "t", "l", "e", " ", "w", "i", "t", "h", " ", "@", "a", "l", "i",
      "c", "e", " ", "a", "n", "d", " ", "#", "t", "a", "g">>

InitRender ==
    /\ \/ text \in StringsUpTo(RenderAlphabet, MaxLen) /\ availableUsers \in UserLists
       \/ text = TitleText /\ availableUsers \in {<<>>, <<alice5>>}
    /\ segments = <<>>
    /\ parsed = FALSE
    /\ rendered = NotRendered
    /\ PageRendered
    /\ EditorMounted(<<>>)
    /\ Page(FALSE)

NextRender ==
    \E kind \in ComponentKinds,
       children \in {<<StringChild(text)>>, <<StringChild(text), LineBreak>>,
                     <<LineBreak, StringChild(text)>>} :
        RenderElement(kind, children)

SpecRender == InitRender /\ [][NextRender]_vars

(***************************************************************************)
(* Properties of the tokenizer.                                            *)
(***************************************************************************)
\* A segment written back with its marker.
SegmentSource(seg) ==
    IF seg.type = "hashtag" THEN <<"#">> \o seg.content
    ELSE IF seg.type = "mention" THEN <<"@">> \o seg.content
    ELSE seg.content

RECURSIVE Rebuild(_)
Rebuild(segs) ==
    IF segs = <<>> THEN <<>> ELSE SegmentSource(Head(segs)) \o Rebuild(Tail(segs))

\* The position in the rebuilt string at which segment k starts.
SegStart(segs, k) == Len(Rebuild(SubSeq(segs, 1, k - 1)))

\* The token rule as the specification words it: the marker is at index 0 or right
\* after a whitespace character, and a word character follows it.
AtBoundary(s, i) == i = 0 \/ IsWhitespace(CharAt(s, i - 1))
TokenAt(s, i, marker) ==
    /\ CharAt(s, i) = marker
    /\ AtBoundary(s, i)
    /\ i + 1 < Len(s)
    /\ IsWordChar(CharAt(s, i + 1))
HasToken(s) ==
    \E i \in 0..(Len(s) - 1) : TokenAt(s, i, "#") \/ TokenAt(s, i, "@")

SegmentStartsAt(segs, type, i) ==
    \E k \in 1..Len(segs) : segs[k].type = type /\ SegStart(segs, k) = i

InsideTextSegment(segs, i) ==
    \E k \in 1..Len(segs) :
        /\ segs[k].type = "text"
        /\ SegStart(segs, k) <= i
        /\ i < SegStart(segs, k) + Len(segs[k].content)

\* C6: round-trip law: the segments of parseTextWithTagsAndMentions(s, U), written
\* back in order with '#' before a hashtag and '@' before a mention, give exactly s.
C6_RoundTrip == parsed => Rebuild(segments) = text

\* C6 witness: a parse with a text segment (holding the separating whitespace)
\* followed by a token.
C6_Witness ==
    /\ parsed
    /\ \E k \in 1..(Len(segments) - 1) :
          /\ segments[k].type = "text"
          /\ segments[k + 1].type \in {"hashtag", "mention"}
          /\ SegStart(segments, k + 1) > 0

\* C7: a hashtag/mention segment is emitted for an occurrence of '#'/'@' exactly
\* when that character is at index 0 or right after whitespace and is followed by a
\* word character; every other '#'/'@' lies inside a text segment.
C7_TokenRule ==
    parsed =>
        \A i \in 0..(Len(text) - 1) :
            /\ CharAt(text, i) = "#" =>
                 /\ SegmentStartsAt(segments, "hashtag", i) <=> TokenAt(text, i, "#")
                 /\ ~TokenAt(text, i, "#") => InsideTextSegment(segments, i)
            /\ CharAt(text, i) = "@" =>
                 /\ SegmentStartsAt(segments, "mention", i) <=> TokenAt(text, i, "@")
                 /\ ~TokenAt(text, i, "@") => InsideTextSegment(segments, i)

\* C7 witness: one input with a token at a boundary and a marker embedded in a word
\* ("#a@a"): the first is a segment, the second stays text.
C7_Witness ==
    /\ parsed
    /\ \E i \in 1..(Len(text) - 2) :
          /\ CharAt(text, i) \in {"#", "@"}
          /\ IsWordChar(CharAt(text, i - 1))
          /\ IsWordChar(CharAt(text, i + 1))
          /\ InsideTextSegment(segments, i)
    /\ \E k \in 1..Len(segments) : segments[k].type # "text"

\* The captured name is the username of some user, compared case-insensitively.
NameKnown(users, name) ==
    \E k \in 1..Len(users) : ToLowerCase(users[k].username) = ToLowerCase(name)

\* C8: every hashtag segment is valid whatever U is; a mention segment is valid
\* exactly when some user's username equals the name case-insensitively; and a
\* mention token is emitted as a mention segment whether or not its name is in U.
C8_Validity ==
    parsed =>
        /\ \A k \in 1..Len(segments) :
              /\ segments[k].type = "hashtag" => segments[k].isValid = TRUE
              /\ segments[k].type = "mention" =>
                    (segments[k].isValid <=> NameKnown(availableUsers, segments[k].content))
        /\ \A i \in 0..(Len(text) - 1) :
              TokenAt(text, i, "@") => SegmentStartsAt(segments, "mention", i)

\* C8 witness: a valid mention whose name differs in case from the username, next
\* to a hashtag parsed against the same list.
C8_Witness ==
    /\ parsed
    /\ \E k \in 1..Len(segments) :
          /\ segments[k].type = "mention"
          /\ segments[k].isValid
          /\ \A j \in 1..Len(availableUsers) :
                availableUsers[j].username # segments[k].content

\* C9 as stated: an input with no hashtag or mention token gives exactly one text
\* segment whose content is the input.
C9_Original ==
    (parsed /\ ~HasToken(text)) => segments = <<TextSegment(text)>>

\* C9 as amended: a non-empty input with no hashtag or mention token gives exactly
\* one text segment whose content is the input; the empty input gives no segment.
C9_SingleText ==
    (parsed /\ ~HasToken(text)) =>
        IF text = <<>> THEN segments = <<>> ELSE segments = <<TextSegment(text)>>

\* C9 witness: a token-free input that still holds a marker ("a#a").
C9_Witness ==
    /\ parsed
    /\ ~HasToken(text)
    /\ Len(text) >= 3
    /\ \E i \in 0..(Len(text) - 2) :
          CharAt(text, i) \in {"#", "@"} /\ IsWordChar(CharAt(text, i + 1))
    /\ Len(segments) = 1

(***************************************************************************)
(* Properties of the edit history.                                         *)
(***************************************************************************)
\* C1: after any sequence of edits, timer firings, undo and redo, history is not
\* empty and 0 <= historyIndex < history.length.
C1_IndexInRange ==
    /\ Len(history) >= 1
    /\ historyIndex >= 0
    /\ historyIndex < Len(history)

\* C1 witness: the index in the middle of a stack of three, left there by undo.
C1_Witness ==
    /\ last.op = "undo"
    /\ Len(history) = 3
    /\ historyIndex = 1

\* The string of n characters "a".
Typed(n) == [i \in 1..n |-> "a"]

\* C2: history.length never exceeds 100; a checkpoint taken with 100 entries evicts
\* the oldest and leaves historyIndex at 99; and when the 101st snapshot pushed
\* after the initial one is on top of the stack and no later push has evicted more,
\* the stack is exactly the 100 most recent snapshots in order.
C2_Cap ==
    /\ [](Len(history) <= HistoryLimit)
    /\ []((/\ historyIndex = Len(history) - 1
            /\ history[Len(history)] = Typed(HistoryLimit + 1)
            /\ Len(history[1]) <= 2)
            => history = [i \in 1..HistoryLimit |-> Typed(i + 1)])
    /\ [][(last'.op = "historyTimeout" /\ history' # history /\ Len(history) = HistoryLimit
              /\ historyIndex = HistoryLimit - 1)
            => (/\ history' = Append(Tail(history), value)
                /\ historyIndex' = HistoryLimit - 1)]_vars

\* C2 witness: 101 checkpoints after the initial snapshot; the two oldest are gone.
C2_Witness ==
    /\ Len(history) = HistoryLimit
    /\ historyIndex = HistoryLimit - 1
    /\ history[1] = Typed(2)
    /\ history[HistoryLimit] = Typed(HistoryLimit + 1)

\* C3: linear history: a checkpoint of a fresh buffer taken below the top of the
\* stack removes every entry past historyIndex, puts the buffer last and leaves
\* historyIndex = history.length - 1 (so redo is a no-op); and redo never changes
\* the stack, it only moves to an entry the stack still holds.
C3_LinearHistory ==
    [][/\ (last'.op = "historyTimeout" /\ history' # history
               /\ historyIndex < Len(history) - 1)
            => (/\ history' = Append(SubSeq(history, 1, historyIndex + 1), value)
                /\ historyIndex' = Len(history') - 1
                /\ value' = value)
       /\ last'.op = "redo"
            => (/\ history' = history
                /\ \/ last'.onChange = NoCall
                   \/ /\ historyIndex' = historyIndex + 1
                      /\ value' = history[historyIndex' + 1])]_vars

\* C3 witness: a checkpoint that discarded redo entries.
C3_Witness ==
    /\ last.op = "historyTimeout"
    /\ last.dropped > 0
    /\ historyIndex = Len(history) - 1
    /\ history[Len(history)] = value

\* C4: undo at historyIndex = 0 and redo at historyIndex = history.length - 1 change
\* neither history, historyIndex nor the buffer, and do not call onChange.
C4_BoundaryNoOp ==
    [][((last'.op = "undo" /\ historyIndex = 0)
          \/ (last'.op = "redo" /\ historyIndex = Len(history) - 1))
         => (/\ UNCHANGED <<history, historyIndex, value>>
             /\ last'.onChange = NoCall)]_vars

\* C4 witness: undo pressed at the bottom of a stack of several snapshots.
C4_Witness ==
    /\ last.op = "undo"
    /\ last.onChange = NoCall
    /\ historyIndex = 0
    /\ Len(history) >= 2

\* C5: the stack changes only when the history timeout fires, which happens only
\* after 500 ms without a buffer change and appends exactly the buffer, and only if
\* it differs from history[historyIndex]; every buffer change restarts the timeout;
\* undo and redo never change the stack.
C5_Debounce ==
    [][/\ history' # history
            => (/\ last'.op = "historyTimeout"
                /\ quiet >= HistoryDelay
                /\ value # HistoryAt(history, historyIndex)
                /\ Len(history') <= Len(history) + 1
                /\ history'[Len(history')] = value)
       /\ (last'.op = "historyTimeout" /\ value = HistoryAt(history, historyIndex))
            => history' = history
       /\ value' # value => historyTimer' = 0
       /\ last'.op \in {"undo", "redo"} => history' = history]_vars

\* C5 witness: a burst of two keystrokes checkpointed as one entry.
C5_Witness ==
    /\ last.op = "historyTimeout"
    /\ last.dropped = 0
    /\ Len(history) = 2
    /\ Len(history[2]) = Len(history[1]) + 2

(***************************************************************************)
(* Properties of the mention dropdown.                                     *)
(***************************************************************************)
\* C10: choosing candidate u while the dropdown is visible with trigger index t and
\* caret c turns the buffer into old[0,t) + "@" + u.username + " " + old[c..], puts
\* the caret at t + len(u.username) + 2 and hides the dropdown.
C10_Commit ==
    [][last'.op = "handleUserSelect"
         => LET t == mentionDropdown.startIndex
                c == selectionStart
                name == last'.user
            IN  /\ value' = Substring(value, 0, t) \o <<"@">> \o name \o <<" ">>
                                \o SubstringFrom(value, c)
                /\ selectionStart' = t + Len(name) + 2
                /\ selectionEnd' = t + Len(name) + 2
                /\ ~mentionDropdown'.isVisible]_vars

\* C10 where the trigger index still lies inside the buffer: there the commit is as
\* C10 says.  The states C10_Commit fails in are those where the buffer was replaced
\* under a visible dropdown, whose startIndex is then stale.
C10_CommitInsideBuffer ==
    [][(last'.op = "handleUserSelect" /\ mentionDropdown.startIndex <= Len(value))
         => LET t == mentionDropdown.startIndex
                c == selectionStart
                name == last'.user
            IN  /\ value' = Substring(value, 0, t) \o <<"@">> \o name \o <<" ">>
                                \o SubstringFrom(value, c)
                /\ selectionStart' = t + Len(name) + 2
                /\ selectionEnd' = t + Len(name) + 2
                /\ ~mentionDropdown'.isVisible]_vars

\* C11: Escape pressed while the dropdown is shown hides it on keydown, and it is
\* still hidden once the key has been released (keyup runs handleSelectionChange),
\* with buffer and caret unchanged by either step.
C11_EscapeHides ==
    [][/\ (last'.op = "keydown Escape" /\ pressed'.closed)
            => (/\ ~mentionDropdown'.isVisible
                /\ UNCHANGED <<value, selectionStart, selectionEnd>>)
       /\ (pressed.key = "Escape" /\ pressed.closed /\ last.op = "keydown Escape"
               /\ pressed' = NoPress)
            => (/\ ~mentionDropdown'.isVisible
                /\ UNCHANGED <<value, selectionStart, selectionEnd>>)]_vars

\* C11, the keydown half alone: Escape hides the shown dropdown until the key is
\* released.
C11_KeyDownHides ==
    [][(last'.op = "keydown Escape" /\ pressed'.closed)
            => (/\ ~mentionDropdown'.isVisible
                /\ UNCHANGED <<value, selectionStart, selectionEnd>>)]_vars

\* The caret at c in s is inside an open mention span that starts at index at: the
\* last "@" before the caret is at, it is at index 0 or right after a whitespace
\* character, and no space or newline lies between it and the caret.
OpenMentionSpan(s, c, at) ==
    /\ at \in 0..(c - 1)
    /\ CharAt(s, at) = "@"
    /\ \A i \in (at + 1)..(c - 1) : CharAt(s, i) \notin {"@", " ", "\n"}
    /\ at = 0 \/ IsWhitespace(CharAt(s, at - 1))

\* The same with only a space or a newline accepted before the "@".
OpenMentionSpanAfterSpace(s, c, at) ==
    /\ at \in 0..(c - 1)
    /\ CharAt(s, at) = "@"
    /\ \A i \in (at + 1)..(c - 1) : CharAt(s, i) \notin {"@", " ", "\n"}
    /\ at = 0 \/ CharAt(s, at - 1) \in {" ", "\n"}

\* C12: after a keystroke or caret move that leaves an empty selection, the dropdown
\* is visible exactly when the caret is inside an open mention span; searchTerm is
\* then the text between the "@" and the caret and startIndex the index of the "@".
C12_ActiveIffOpenSpan ==
    (last.op \in {"handleTextareaChange", "handleSelectionChange"}
        /\ selectionStart = selectionEnd)
    => /\ mentionDropdown.isVisible
            <=> \E at \in 0..Len(value) : OpenMentionSpan(value, selectionStart, at)
       /\ mentionDropdown.isVisible
            => /\ OpenMentionSpan(value, selectionStart, mentionDropdown.startIndex)
               /\ mentionDropdown.searchTerm
                    = Substring(value, mentionDropdown.startIndex + 1, selectionStart)

\* C12 with "whitespace" read as a space: this is what detectMention computes.
C12_ActiveIffSpanAfterSpace ==
    (last.op \in {"handleTextareaChange", "handleSelectionChange"}
        /\ selectionStart = selectionEnd)
    => /\ mentionDropdown.isVisible
            <=> \E at \in 0..Len(value) :
                    OpenMentionSpanAfterSpace(value, selectionStart, at)
       /\ mentionDropdown.isVisible
            => /\ OpenMentionSpanAfterSpace(value, selectionStart,
                                            mentionDropdown.startIndex)
               /\ mentionDropdown.searchTerm
                    = Substring(value, mentionDropdown.startIndex + 1, selectionStart)

(***************************************************************************)
(* Properties of focus, blur and the timeouts.                             *)
(***************************************************************************)
\* C13: when the mouse button goes down on a candidate while the textarea has the
\* focus, the loss of focus does not hide the dropdown; and when the button is
\* released before the blur timeout of that press is due, handleUserSelect runs
\* for that candidate and commits it into the buffer.
C13_ClickCommits ==
    [][/\ (last'.op = "mousedown candidate" /\ focused)
            => mentionDropdown'.isVisible
       /\ (/\ pressed.key = "mouse" /\ pressed.closed /\ pressed' = NoPress
           /\ last.op \in {"mousedown candidate", "advance"}
           /\ blurTimers # <<>> /\ blurTimers[Len(blurTimers)] < BlurDelay)
            => (/\ last'.op = "handleUserSelect"
                /\ last'.user = pressed.on.username
                /\ value' = Substring(value, 0, mentionDropdown.startIndex) \o <<"@">>
                                \o pressed.on.username \o <<" ">>
                                \o SubstringFrom(value, selectionStart))]_vars

\* C17: at most one blur timeout and one history timeout are pending at any time,
\* and none is pending once the editor has unmounted (so no callback runs against
\* the unmounted editor).
C17_TimersCancelled ==
    /\ Len(blurTimers) <= 1
    /\ ~mounted => (blurTimers = <<>> /\ historyTimer = NoTimer)

\* C17 for the history timeout alone: the effect's cleanup clears it at unmount.
C17_HistoryTimerCancelled ==
    ~mounted => historyTimer = NoTimer

\* C18: a blur timeout that fires after focus has returned and the dropdown is
\* visible again for an open mention changes nothing, and a history timeout that
\* fires when the buffer is the current snapshot changes nothing.
C18_StaleTimeoutNoOp ==
    [][/\ (last'.op = "blurTimeout" /\ focused /\ mentionDropdown.isVisible)
            => UNCHANGED <<mentionDropdown, value, history, historyIndex>>
       /\ (last'.op = "historyTimeout" /\ value = HistoryAt(history, historyIndex))
            => UNCHANGED <<mentionDropdown, value, history, historyIndex>>]_vars

\* C18 for the history timeout alone.
C18_HistoryTimeoutNoOp ==
    [][(last'.op = "historyTimeout" /\ value = HistoryAt(history, historyIndex))
            => UNCHANGED <<mentionDropdown, value, history, historyIndex>>]_vars

(***************************************************************************)
(* Properties of the toolbar.                                              *)
(***************************************************************************)
\* C14: a wrapping action with markers (before, after) and placeholder p on the
\* selection [start, end): a non-empty selection is wrapped and stays selected,
\* without the markers; an empty one gets before + p + after with p selected.  The
\* text outside the selection is unchanged.
C14_Wrap ==
    [][last'.op = "insertText"
         => LET before == last'.user[1]
                after == last'.user[2]
                p == last'.user[3]
                start == selectionStart
                end == selectionEnd
                selected == Substring(value, start, end)
            IN  IF start # end
                THEN /\ value' = Substring(value, 0, start) \o before \o selected \o after
                                    \o SubstringFrom(value, end)
                     /\ selectionStart' = start + Len(before)
                     /\ selectionEnd' = end + Len(before)
                     /\ Substring(value', selectionStart', selectionEnd') = selected
                ELSE /\ value' = Substring(value, 0, start) \o before \o p \o after
                                    \o SubstringFrom(value, start)
                     /\ selectionStart' = start + Len(before)
                     /\ selectionEnd' = start + Len(before) + Len(p)
                     /\ Substring(value', selectionStart', selectionEnd') = p]_vars

\* C14 witness: bold applied to the selection "hi" gave "**hi**" with "hi" selected.
C14_Witness ==
    /\ last.op = "insertText"
    /\ last.user[1] = <<"*", "*">>
    /\ value = <<"*", "*", "h", "i", "*", "*">>
    /\ selectionStart = 2
    /\ selectionEnd = 4

\* L is where a line of s starts.
IsLineStart(s, L) == L \in 0..Len(s) /\ (L = 0 \/ CharAt(s, L - 1) = "\n")

\* The line of s that starts at L, without its newline.
LineFrom(s, L) ==
    Substring(s, L, CHOOSE E \in L..Len(s) :
                        /\ E = Len(s) \/ CharAt(s, E) = "\n"
                        /\ \A i \in L..(E - 1) : CharAt(s, i) # "\n")

\* The number of "#" a line begins with.
HeadingLevel(line) ==
    CHOOSE n \in 0..Len(line) :
        /\ \A i \in 1..n : line[i] = "#"
        /\ n = Len(line) \/ line[n + 1] # "#"

\* The state n heading actions after the caret stood on the blank line at L: the
\* line is n "#", a space and "Heading", with "Heading" selected (n = 0: the line
\* is blank and the caret is on it).
HeadingChain(s, start, end, L, n) ==
    /\ IsLineStart(s, L)
    /\ IF n = 0
       THEN LineFrom(s, L) = <<>> /\ start = L /\ end = L
       ELSE /\ LineFrom(s, L) = Hashes(n) \o <<" ", "H", "e", "a", "d", "i", "n", "g">>
            /\ start = L + n + 1
            /\ end = L + n + 8

\* C15: the heading action invoked 7 times from a blank line with an empty
\* selection, each time on the selection the last one left, gives a line that
\* begins with 1, 2, 3, 4, 5, 6 and then 0 "#".
C15_HeadingCycle ==
    [][last'.op = "handleHeading"
         => \A L \in 0..Len(value), n \in 0..MaxHeadingLevel :
               HeadingChain(value, selectionStart, selectionEnd, L, n)
               => /\ HeadingLevel(LineFrom(value', L)) = (n + 1) % (MaxHeadingLevel + 1)
                  /\ n < MaxHeadingLevel
                       => HeadingChain(value', selectionStart', selectionEnd', L, n + 1)
                  /\ Substring(value', 0, L) = Substring(value, 0, L)]_vars

\* C15 witness: the seventh invocation has taken the markers off again.
C15_Witness ==
    /\ last.op = "handleHeading"
    /\ value = <<"H", "e", "a", "d", "i", "n", "g">>
    /\ selectionStart = 0
    /\ selectionEnd = 7
    /\ history[1] = <<>>

\* The heading action was invoked with the caret at c on a line that starts at L
\* with k "#" and a space: the line now starts with k + 1 "#" and a space (none
\* if k was 6) followed by the same text, and no other line changed.
HeadingRaised(L, k) ==
    LET line == LineFrom(value, L)
        lineText == SubSeq(line, k + 2, Len(line))
        newLine == IF k < MaxHeadingLevel THEN Hashes(k + 1) \o <<" ">> \o lineText
                   ELSE lineText
    IN  value' = Substring(value, 0, L) \o newLine \o SubstringFrom(value, L + Len(line))

\* The caret at c is on the line of value that starts at L, and that line begins
\* with k "#" and a space, 1 <= k <= 6.
OnHeadingLine(c, L, k) ==
    /\ IsLineStart(value, L)
    /\ c \in L..(L + Len(LineFrom(value, L)))
    /\ k \in 1..MaxHeadingLevel
    /\ HeadingLevel(LineFrom(value, L)) = k
    /\ Len(LineFrom(value, L)) > k
    /\ LineFrom(value, L)[k + 1] = " "

\* C20: the heading action with the caret anywhere on a line that begins with k
\* "#" and a space raises that line to k + 1 "#" (strips the markers for k = 6),
\* keeps its text and changes no other line.
C20_HeadingAnywhere ==
    [][(last'.op = "handleHeading" /\ selectionStart = selectionEnd)
         => \A L \in 0..Len(value), k \in 1..MaxHeadingLevel :
               OnHeadingLine(selectionStart, L, k) => HeadingRaised(L, k)]_vars

\* C20 with the caret behind the markers and their space: there it holds.
C20_HeadingBehindMarkers ==
    [][(last'.op = "handleHeading" /\ selectionStart = selectionEnd)
         => \A L \in 0..Len(value), k \in 1..MaxHeadingLevel :
               (OnHeadingLine(selectionStart, L, k) /\ selectionStart >= L + k + 1)
               => HeadingRaised(L, k)]_vars

(***************************************************************************)
(* The placement of the dropdown.                                          *)
(***************************************************************************)
\* The dropdown placed at p lies inside the window with the margin on all sides.
InsideHorizontally(p, innerWidth) ==
    padding <= p.left /\ p.left <= innerWidth - dropdownWidth - padding

InsideVertically(p, innerHeight) ==
    padding <= p.top /\ p.top + dropdownHeight <= innerHeight - padding

\* C16: for every anchor position and every window size, the position that
\* getAdjustedPosition returns keeps the dropdown inside the window with the
\* margin: padding <= left <= innerWidth - dropdownWidth - padding and
\* padding <= top, top + dropdownHeight <= innerHeight - padding.
C16_InsideViewport ==
    layout.rendered =>
        /\ InsideHorizontally(layout.adjusted, layout.innerWidth)
        /\ InsideVertically(layout.adjusted, layout.innerHeight)

\* What does hold of getAdjustedPosition: the left and top margins always; the
\* right margin in a window wide enough for the dropdown and its margins; the
\* bottom margin in a window high enough for them, for an anchor that is not
\* more than AboveCursorGap - padding below the window's bottom edge.
C16_InsideRoomyViewport ==
    layout.rendered =>
        /\ padding <= layout.adjusted.left
        /\ padding <= layout.adjusted.top
        /\ layout.innerWidth >= dropdownWidth + 2 * padding
               => InsideHorizontally(layout.adjusted, layout.innerWidth)
        /\ (/\ layout.innerHeight >= dropdownHeight + 2 * padding
            /\ layout.position.top <= layout.innerHeight + AboveCursorGap - padding)
               => InsideVertically(layout.adjusted, layout.innerHeight)

\* The example of an anchor at left 450 in a window 500 wide.
C16_ExampleWidth500 ==
    (layout.rendered /\ layout.innerWidth = 500 /\ layout.position.left = 450)
        => layout.adjusted.left <= 500 - dropdownWidth - padding

C16_ExampleReached ==
    layout.rendered /\ layout.innerWidth = 500 /\ layout.position.left = 450

(***************************************************************************)
(* MarkdownRenderer.                                                       *)
(***************************************************************************)
\* Every string child of the rendered element is shown as the spans of its
\* segments.
StringChildrenTokenized ==
    \A i \in 1..Len(rendered.children) :
        (rendered.children[i].isString /\ rendered.children[i].content # <<>>)
            => rendered.shown[i] =
                   Spans(parseTextWithTagsAndMentions(rendered.children[i].content,
                                                      availableUsers))

\* C19: for a paragraph, heading h1-h6, list item, table cell (td/th),
\* blockquote, emphasis or strong element, every plain-string child is rendered
\* through TextRenderer, as the spans of its segments, and not verbatim.
C19_StringChildrenTokenized ==
    rendered.kind \in {"p", "h1", "h2", "h3", "h4", "h5", "h6", "li", "td", "th",
                       "blockquote", "em", "strong"}
        => StringChildrenTokenized

\* The same without the table cells, which does hold.
C19_TokenizedOutsideTables ==
    rendered.kind \in {"p", "h1", "h2", "h3", "h4", "h5", "h6", "li",
                       "blockquote", "em", "strong"}
        => StringChildrenTokenized

\* The example: the heading "Title with @alice and #tag" with alice known.
C19_ExampleHeading ==
    (/\ rendered.kind = "h1"
     /\ rendered.children = <<StringChild(TitleText)>>
     /\ availableUsers = <<alice5>>)
        => rendered.shown =
             << Spans(<< TextSegment(<<"T", "i", "t", "l", "e", " ", "w", "i", "t", "h", " ">>),
                         [type |-> "mention", content |-> <<"a", "l", "i", "c", "e">>,
                          isValid |-> TRUE],
                         TextSegment(<<" ", "a", "n", "d", " ">>),
                         [type |-> "hashtag", content |-> <<"t", "a", "g">>,
                          isValid |-> TRUE] >>) >>

C19_ExampleReached ==
    /\ rendered.kind = "h1"
    /\ rendered.children = <<StringChild(TitleText)>>
    /\ availableUsers = <<alice5>>

(***************************************************************************)
(* The tokenizer and the user list.                                        *)
(***************************************************************************)
\* Two segment lists that agree in length and, position by position, in type
\* and content.
SameShape(a, b) ==
    /\ Len(a) = Len(b)
    /\ \A k \in 1..Len(a) : a[k].type = b[k].type /\ a[k].content = b[k].content

\* C24: for every string and any two user lists the tokenizer returns lists of
\* the same length with the same type and content at every position; only the
\* isValid flags of mention segments can differ.  With the empty user list every
\* mention segment has isValid = FALSE.
C24_UsersOnlyValidity ==
    parsed =>
        /\ \A users2 \in UserLists :
              LET other == parseTextWithTagsAndMentions(text, users2)
              IN  /\ SameShape(segments, other)
                  /\ \A k \in 1..Len(segments) :
                        segments[k].type # "mention" => segments[k] = other[k]
        /\ availableUsers = <<>> =>
              \A k \in 1..Len(segments) :
                  segments[k].type = "mention" => ~segments[k].isValid

\* C24 witness: a mention that is valid with the list given and not with the
\* empty list, between other segments.
C24_Witness ==
    /\ parsed
    /\ Len(segments) >= 2
    /\ \E k \in 1..Len(segments) :
          /\ segments[k].type = "mention" /\ segments[k].isValid
          /\ ~parseTextWithTagsAndMentions(text, <<>>)[k].isValid

\* C26: the tokenizer never returns a segment with empty content and never two
\* adjacent text segments; the empty string yields the empty list.
C26_NoEmptyNoAdjacentText ==
    parsed =>
        /\ \A k \in 1..Len(segments) : segments[k].content # <<>>
        /\ \A k \in 1..(Len(segments) - 1) :
              ~(segments[k].type = "text" /\ segments[k + 1].type = "text")
        /\ text = <<>> => segments = <<>>

\* C26 witness: the empty input tokenized.
C26_Witness == parsed /\ text = <<>>

\* C26 witness for the other half: text segments on both sides of a token.
C26_TextAroundToken ==
    /\ parsed
    /\ \E k \in 2..(Len(segments) - 1) :
          /\ segments[k].type # "text"
          /\ segments[k - 1].type = "text" /\ segments[k + 1].type = "text"

(***************************************************************************)
(* Undo and redo as moves along the history.                               *)
(***************************************************************************)
\* C23: at historyIndex = k > 0 undo sets historyIndex to k - 1 and the buffer to
\* history[k - 1], and at k < history.length - 1 redo sets historyIndex to k + 1
\* and the buffer to history[k + 1], neither changing the history; so the undo
\* that reaches historyIndex = 0 leaves the buffer equal to the first snapshot.
\* (history[k] of the code is history[k + 1] here.)
C23_UndoRedoMove ==
    [][/\ (last'.op = "undo" /\ historyIndex > 0)
            => (/\ historyIndex' = historyIndex - 1
                /\ value' = history[historyIndex]
                /\ history' = history
                /\ historyIndex' = 0 => value' = history'[1])
       /\ (last'.op = "redo" /\ historyIndex < Len(history) - 1)
            => (/\ historyIndex' = historyIndex + 1
                /\ value' = history[historyIndex + 2]
                /\ history' = history)]_vars

\* C23 witness: undo has come down to the first of at least three snapshots.
C23_Witness ==
    /\ last.op = "undo"
    /\ last.onChange # NoCall
    /\ historyIndex = 0
    /\ Len(history) >= 3
    /\ value = history[1]

(***************************************************************************)
(* Undo followed by redo; the checkpointing comes to rest.                 *)
(***************************************************************************)
\* The buffer that redo would leave in the current state.
BufferAfterRedo ==
    IF RedoAllowed(historyIndex, Len(history))
    THEN HistoryAt(history, historyIndex + 1)
    ELSE value

\* C27: in every reachable state with historyIndex > 0, also when the buffer
\* holds edits that no snapshot holds yet, undo immediately followed by redo
\* leaves the buffer as it was before the undo.
C27_UndoRedoRestores ==
    [][(last'.op = "undo" /\ historyIndex > 0) => BufferAfterRedo' = value]_vars

\* What does hold: undo followed by redo restores a buffer that the current
\* snapshot holds.
C27_UndoRedoRestoresSaved ==
    [][(last'.op = "undo" /\ historyIndex > 0
            /\ value = HistoryAt(history, historyIndex))
          => BufferAfterRedo' = value]_vars

\* The current snapshot holds the buffer.
Checkpointed == HistoryAt(history, historyIndex) = value

\* C29: if the buffer stops changing then eventually, the timeout having fired,
\* history[historyIndex] equals the buffer for good; and while it does, history
\* and historyIndex change only with an edit, an undo or a redo, so the same
\* buffer is never appended again.
C29_Quiesces ==
    /\ (<>[][value' = value]_vars) => <>[]Checkpointed
    /\ [][(Checkpointed /\ value' = value /\ last'.op \notin {"undo", "redo"})
             => UNCHANGED <<history, historyIndex>>]_vars

\* C29 witness: the timeout has fired on a checkpointed buffer and found
\* nothing to append; no timeout is pending.
C29_Witness ==
    /\ last.op = "historyTimeout"
    /\ last.dropped = -1
    /\ Checkpointed
    /\ Len(history) >= 2
    /\ historyTimer = NoTimer

(***************************************************************************)
(* Simple insertions.                                                      *)
(***************************************************************************)
\* s with t put in at 0-based position at.
InsertedAt(s, t, at) == Substring(s, 0, at) \o t \o SubstringFrom(s, at)

\* C21: a simple insertion with selection [start, end) puts its text in at the
\* cursor and removes nothing: the old buffer, the selected text included, is
\* still there in order around the inserted text, and the cursor is collapsed
\* right behind the inserted text.
C21_SimpleInsertKeepsAll ==
    [][last'.op = "insertSimpleText"
         => \E at \in {selectionStart, selectionEnd} :
              /\ value' = InsertedAt(value, last'.user, at)
              /\ selectionStart' = at + Len(last'.user)
              /\ selectionEnd' = selectionStart']_vars

\* What does hold: with an empty selection the text goes in at the caret, and
\* with any selection the text before it and behind it is kept and the cursor
\* is collapsed behind the inserted text.
C21_SimpleInsertReplaces ==
    [][last'.op = "insertSimpleText"
         => /\ value' = Substring(value, 0, selectionStart) \o last'.user
                            \o SubstringFrom(value, selectionEnd)
            /\ selectionStart' = selectionStart + Len(last'.user)
            /\ selectionEnd' = selectionStart'
            /\ selectionStart = selectionEnd
                 => value' = InsertedAt(value, last'.user, selectionStart)]_vars

(***************************************************************************)
(* The highlighted candidate of the dropdown.                              *)
(***************************************************************************)
\* The candidates the dropdown shows.
Candidates == filteredUsers(availableUsers, mentionDropdown.searchTerm)

HighlightValid == selectedIndex \in 0..(Len(Candidates) - 1)

C22_ValidButForUserList ==
    [][/\ Len(Candidates) <= 5
       /\ (HighlightValid /\ DropdownRendered' /\ last'.op # "setAvailableUsers")
            => HighlightValid'
       /\ (last'.op = "keydown ArrowDown" /\ HighlightValid)
            => selectedIndex' = (selectedIndex + 1) % Len(Candidates)
       /\ (last'.op = "keydown ArrowUp" /\ HighlightValid)
            => selectedIndex' = (selectedIndex + Len(Candidates) - 1) % Len(Candidates)
       /\ (pressed'.key = "Enter" /\ pressed.key = "none" /\ HighlightValid)
            => (/\ last'.op = "handleUserSelect"
                /\ last'.user = Candidates[selectedIndex + 1].username)]_vars

\* The highlight has wrapped around a list of five candidates.
C22_Wrapped ==
    /\ last.op = "keydown ArrowUp"
    /\ Len(Candidates) = 5
    /\ selectedIndex = 4

(***************************************************************************)
(* The image zoom overlay.                                                 *)
(***************************************************************************)
\* C25: while the overlay is open, Escape closes it, whether or not fullscreen
\* is on, and body scrolling, locked while it is open, is restored once it is
\* closed.
C25_EscapeCloses ==
    [][/\ last'.op = "handleEscape" => ~imageModal'[last'.user].isOpen
       /\ SomeModalOpen' => bodyOverflow' = "hidden"
       /\ (SomeModalOpen /\ ~SomeModalOpen') => bodyOverflow' # "hidden"]_vars

\* What does hold: Escape closes an overlay that is not in fullscreen and takes
\* one that is out of fullscreen, leaving it open; scrolling is locked while an
\* overlay is open and free again once it is closed.
C25_EscapeClosesWindowed ==
    [][/\ last'.op = "handleEscape"
            => IF imageModal[last'.user].isFullscreen
               THEN imageModal'[last'.user].isOpen
                    /\ ~imageModal'[last'.user].isFullscreen
               ELSE ~imageModal'[last'.user].isOpen
       /\ SomeModalOpen' => bodyOverflow' = "hidden"
       /\ (SomeModalOpen /\ ~SomeModalOpen') => bodyOverflow' # "hidden"]_vars

\* Escape has closed an overlay.
C25_ClosedByEscape ==
    last.op = "handleEscape" /\ ~SomeModalOpen /\ bodyOverflow = "unset"

(***************************************************************************)
(* The dropdown state against the buffer.                                  *)
(***************************************************************************)
\* The dropdown state describes the buffer: '@' at startIndex, before the
\* cursor, and searchTerm the text between them, without space or newline.
DropdownMatchesBuffer ==
    /\ mentionDropdown.startIndex \in 0..(Len(value) - 1)
    /\ CharAt(value, mentionDropdown.startIndex) = "@"
    /\ mentionDropdown.startIndex < selectionStart
    /\ mentionDropdown.searchTerm =
           Substring(value, mentionDropdown.startIndex + 1, selectionStart)
    /\ IndexOf(mentionDropdown.searchTerm, " ") = -1
    /\ IndexOf(mentionDropdown.searchTerm, "\n") = -1

\* C28: whenever the dropdown state is visible, the buffer has '@' at
\* startIndex, startIndex is less than the cursor, and searchTerm is the text
\* between them and holds no space or newline.
C28_VisibleMatchesBuffer ==
    mentionDropdown.isVisible => DropdownMatchesBuffer

\* What does hold: every step but a replacement of the buffer by the host page
\* takes a state in which C28 holds to one in which it holds.
C28_KeptButByHost ==
    [][(C28_VisibleMatchesBuffer /\ last'.op # "hostSetValue")
          => C28_VisibleMatchesBuffer']_vars

(***************************************************************************)
(* Votes.                                                                  *)
(***************************************************************************)
\* C30: after any interleaving of handleVote calls, votes equals the number of
\* 'up' entries minus the number of 'down' entries of userVotes (in which each
\* user has at most one entry).
C30_VotesMatchUserVotes ==
    voteDoc.votes = Tally(voteDoc.userVotes)

\* What does hold: a call that writes to the document as it read it keeps
\* votes equal to the tally of userVotes; then a click on the vote the user has
\* removes it, and a click on the other one changes the tally by 2.
C30_KeptWithoutOverlap ==
    [][(last'.op = "updateDoc" /\ C30_VotesMatchUserVotes
            /\ last'.user.seen = voteDoc.userVotes)
          => LET uid == last'.user.uid
                 vote == last'.user.vote
                 before == voteDoc.userVotes[uid]
             IN  /\ C30_VotesMatchUserVotes'
                 /\ \A u \in Voters \ {uid} :
                       voteDoc'.userVotes[u] = voteDoc.userVotes[u]
                 /\ before = vote =>
                       (/\ voteDoc'.userVotes[uid] = "none"
                        /\ voteDoc'.votes = Tally([voteDoc.userVotes EXCEPT ![uid] = "none"]))
                 /\ before \notin {vote, "none"} =>
                       (/\ voteDoc'.userVotes[uid] = vote
                        /\ voteDoc'.votes - voteDoc.votes \in {2, -2})]_vars

\* A vote was switched by a call that nothing overlapped.
C30_Switched ==
    /\ last.op = "updateDoc"
    /\ last.user.seen[last.user.uid] \notin {"none", last.user.vote}
    /\ C30_VotesMatchUserVotes

====
